---- MODULE Spec2Model ----
(***************************************************************************)
(* A model of the incremental synchronisation engine of AlphaVantage_Rust: *)
(* the 64-bit security identifier codec (security_types.rs), the registry  *)
(* caches and the news snapshot (alpha_io/news_loader.rs, news_root.rs),   *)
(* the watermark filters (alpha_io/base.rs persist_ticks, load_summary),   *)
(* and the symbol batch with its error ceiling and rate check              *)
(* (alpha_io/base.rs process_symbols, bin/load_missed_overviews.rs).       *)
(*                                                                         *)
(* Each component has its own specification over the shared variables; the *)
(* variables of the other components stay at their initial values.         *)
(***************************************************************************)
EXTENDS Integers, Sequences, FiniteSets, TLC

VARIABLES
  \* ---- identifier codec (security_types.rs) ----
  cpc,          \* position of the codec driver: "idle", "encoded", "decoded"
                \* for a key made by encode; "loaded", "examined" for a key
                \* that comes from elsewhere (a stored s_id)
  st,           \* SecurityType given to encode
  id,           \* u32 sequence given to encode (32-bit vector)
  encoded_id,   \* i64 key produced by encode (64-bit vector)
  decoded,      \* result of SecurityIdentifier::decode(encoded_id)
  key_sec_type, \* result of SecurityType::get_sec_type(encoded_id), None before the call
  \* ---- news processing (alpha_io/news_loader.rs, news_root.rs) ----
  npc,          \* position of NewsProcessor: "idle", "articles"
  world,        \* [context, db, reg, missed, digests]: the NewsProcessingContext,
                \* the store's tables, the record of registry calls, the symbol
                \* log, the fingerprints computed
  root,         \* the process_news_root call in progress
  nresult,      \* result of the last process_news_root call
  art_results,  \* results of process_single_article for the feed in progress
  roots_done,   \* process_news_root calls (direct registry calls in
                \* SpecRegistry) made in this run
  nfaults,      \* store failures met in this run
  reg_call,     \* the last direct get_or_insert_<kind> call: its arguments, the
                \* world it started from and its result
  \* ---- price synchronisation (alpha_io/base.rs, dbfunctions/price.rs) ----
  ppc,          \* position: "idle", "ticks" (persist_ticks), "daily" (load_summary)
  ptable,       \* [intraday, daily]: the instants of the entity's stored rows
  rows,         \* the rows the loop in progress iterates over
  lookup,       \* outcome of the watermark lookup: "Some", "NoData", "Err"
  last_date,    \* the watermark the loop compares with
  pidx,         \* rows the loop has examined
  plog,         \* per examined row: its instant, whether the insert was issued
  presult,      \* result of the last sync
  psyncs,       \* syncs started in this run
  pfaults,      \* store failures met in this run
  pheader,      \* whether the payload of the last sync held the expected header
  \* ---- symbol batch (alpha_io/base.rs process_symbols) and the overview
  \*      loop (bin/load_missed_overviews.rs) ----
  prog,         \* the program running: "process_symbols", "load_missed_overviews"
  spc,          \* position: "request", "records", "done", "aborted", "panicked"
  load_missed,  \* the load_missed argument of process_symbols
  symbol_map,   \* symbol texts seen in this run (keys of symbol_map)
  type_map,     \* per SecurityType, the records counted so far
  sid_max,      \* per sec_type string, the highest sid of the symbols table
  err_ct,       \* errors recorded in this run
  recs,         \* records of the response in hand still to be processed
  slog,         \* per processed record: its symbol, what was done, the s_id
  last,         \* outcome of the last request
  elapsed,      \* milliseconds since resp_time (at least)
  last_wait,    \* the last rate check: the elapsed time it saw and the sleep
  responses,    \* responses with records received in this run
  sresult,      \* result of the run
  sfaults,      \* store failures met in this run
  symbols0,     \* the symbol texts the symbols table held when the run began
  base_sid,     \* process_digital_symbols: the sequence number of the line in hand
  \* ---- top movers (alpha_io/base.rs load_tops) ----
  tpc,          \* position of load_tops: "idle", "list", "done"
  troot,        \* the Root in hand
  tlist,        \* which list of the Root is being processed: 1, 2, 3
  tidx,         \* items of that list done
  tstats,       \* rows of topstats, in insertion order
  tlog,         \* per item examined: the item, the list's type, what was done
  tresult,      \* result of load_tops
  tfaults,      \* store failures met
  tfield        \* an overview field text and the number extracted from it

codecVars == <<cpc, st, id, encoded_id, decoded, key_sec_type>>

newsVars ==
  <<npc, world, root, nresult, art_results, roots_done, nfaults, reg_call>>

symbolVars ==
  <<prog, spc, load_missed, symbol_map, type_map, sid_max, err_ct, recs, slog, last,
    elapsed, last_wait, responses, sresult, sfaults, symbols0, base_sid>>

priceVars ==
  <<ppc, ptable, rows, lookup, last_date, pidx, plog, presult, psyncs, pfaults,
    pheader>>

topVars == <<tpc, troot, tlist, tidx, tstats, tlog, tresult, tfaults, tfield>>

None == [tag |-> "None"]

(***************************************************************************)
(* Fixed-width integers.  An i64 is a function 0..63 -> {0,1} (bit 0 the   *)
(* least significant, bit 63 the sign), a u32 a function 0..31 -> {0,1}.   *)
(***************************************************************************)
Bit == {0, 1}

\* the i64 whose value is the small non-negative number n (n < 2^30)
I64(n) == [i \in 0..63 |-> IF i < 30 THEN (n \div (2^i)) % 2 ELSE 0]

\* the u32 whose value is the small non-negative number n (n < 2^30)
U32(n) == [i \in 0..31 |-> IF i < 30 THEN (n \div (2^i)) % 2 ELSE 0]

\* `id as i64` for id: u32 -- zero extension
U32AsI64_signext(x) == [i \in 0..63 |-> IF i < 32 THEN x[i] ELSE x[31]]

U32AsI64(x) == [i \in 0..63 |-> IF i < 32 THEN x[i] ELSE 0]

\* `x as u32` for x: i64 -- truncation to the low 32 bits
I64AsU32(x) == [i \in 0..31 |-> x[i]]

\* `x << k` on i64 (bits shifted past bit 63 are lost)
Shl(x, k) == [i \in 0..63 |-> IF i >= k THEN x[i - k] ELSE 0]

\* `x >> k` on i64: arithmetic shift, the sign bit is replicated
Sar(x, k) == [i \in 0..63 |-> IF i + k <= 63 THEN x[i + k] ELSE x[63]]

BitOr(x, y) == [i \in 0..63 |-> IF x[i] = 1 \/ y[i] = 1 THEN 1 ELSE 0]

BitAnd(x, y) == [i \in 0..63 |-> IF x[i] = 1 /\ y[i] = 1 THEN 1 ELSE 0]

(***************************************************************************)
(* security_types.rs, mod sec_types                                        *)
(***************************************************************************)
SecurityType ==
  {"Equity", "Bond", "Option", "Future", "ETF", "MutualF", "Crypto", "FX",
   "Swap", "Wrnt", "Adr", "Pfd", "Other"}

\* const MASK32: i64 = 0x1FFFF_FFFF  (33 one bits)
MASK32 == [i \in 0..63 |-> IF i <= 32 THEN 1 ELSE 0]

SHIFT == 47

EQUITY_M == 0
PFD_M == 2
ADR_M == 4
WRNT_M == 6
BOND_M == 16
OPT_M == 32
FUT_M == 48
ETF_M == 64
MUTF_M == 80
CRYPT_M == 96
FX_M == 112
SWAP_M == 128
OTHER_M == 240

\* the tag constant that encode's match arm uses for each SecurityType
TagOf(t) ==
  CASE t = "Equity"  -> EQUITY_M
    [] t = "Bond"    -> BOND_M
    [] t = "Option"  -> OPT_M
    [] t = "Future"  -> FUT_M
    [] t = "ETF"     -> ETF_M
    [] t = "MutualF" -> MUTF_M
    [] t = "Crypto"  -> CRYPT_M
    [] t = "FX"      -> FX_M
    [] t = "Swap"    -> SWAP_M
    [] t = "Wrnt"    -> WRNT_M
    [] t = "Adr"     -> ADR_M
    [] t = "Pfd"     -> PFD_M
    [] t = "Other"   -> OTHER_M

\* SecurityType::encode(st, id):  M << SHIFT | id as i64
encode(t, n) == BitOr(Shl(I64(TagOf(t)), SHIFT), U32AsI64(n))

\* a decode whose catch-all arm yields the category Other
decode_lenient(k) ==
  LET sectype == Sar(k, SHIFT)
      known   == {m \in {EQUITY_M, PFD_M, ADR_M, WRNT_M, BOND_M, OPT_M, FUT_M,
                         ETF_M, MUTF_M, CRYPT_M, FX_M, SWAP_M, OTHER_M} :
                    sectype = I64(m)}
  IN  [tag |-> "Some",
       security_type |-> IF known = {} THEN "Other"
                         ELSE CHOOSE t \in SecurityType : TagOf(t) \in known,
       raw_id |-> I64AsU32(BitAnd(k, MASK32))]

\* SecurityIdentifier::decode(encoded_id)
decode(k) ==
  LET sectype == Sar(k, SHIFT)
      raw     == I64AsU32(BitAnd(k, MASK32))
      Some(t) == [tag |-> "Some", security_type |-> t, raw_id |-> raw]
  IN  CASE sectype = I64(EQUITY_M) -> Some("Equity")
        [] sectype = I64(BOND_M)   -> Some("Bond")
        [] sectype = I64(OPT_M)    -> Some("Option")
        [] sectype = I64(FUT_M)    -> Some("Future")
        [] sectype = I64(ETF_M)    -> Some("ETF")
        [] sectype = I64(MUTF_M)   -> Some("MutualF")
        [] sectype = I64(CRYPT_M)  -> Some("Crypto")
        [] sectype = I64(FX_M)     -> Some("FX")
        [] sectype = I64(SWAP_M)   -> Some("Swap")
        [] sectype = I64(WRNT_M)   -> Some("Wrnt")
        [] sectype = I64(ADR_M)    -> Some("Adr")
        [] sectype = I64(PFD_M)    -> Some("Pfd")
        [] sectype = I64(OTHER_M)  -> Some("Other")
        [] OTHER                   -> None

\* a get_sec_type that looks at the high four tag bits only
get_sec_type_nibble(sid) ==
  LET hi    == Sar(sid, SHIFT + 4)
      names == <<"Equity", "Bond", "Option", "Future", "ETF", "MutualF",
                 "Crypto", "FX", "Swap">>
  IN  IF \E i \in 1..9 : hi = I64(i - 1)
      THEN names[CHOOSE i \in 1..9 : hi = I64(i - 1)]
      ELSE "Other"

\* SecurityType::get_sec_type(sid); the arm `_ => SecurityType::Other` is the
\* OTHER case
get_sec_type(sid) ==
  LET sectype == Sar(sid, SHIFT)
  IN  CASE sectype = I64(EQUITY_M) -> "Equity"
        [] sectype = I64(BOND_M)   -> "Bond"
        [] sectype = I64(OPT_M)    -> "Option"
        [] sectype = I64(FUT_M)    -> "Future"
        [] sectype = I64(ETF_M)    -> "ETF"
        [] sectype = I64(MUTF_M)   -> "MutualF"
        [] sectype = I64(CRYPT_M)  -> "Crypto"
        [] sectype = I64(FX_M)     -> "FX"
        [] sectype = I64(SWAP_M)   -> "Swap"
        [] sectype = I64(WRNT_M)   -> "Wrnt"
        [] sectype = I64(ADR_M)    -> "Adr"
        [] sectype = I64(PFD_M)    -> "Pfd"
        [] sectype = I64(OTHER_M)  -> "Other"
        [] OTHER                   -> "Other"

\* u32 sequences exercised: 0, 1, 0xFFFF, 0x10000, 0x7FFFFFFF, 0x80000000,
\* 0xFFFFFFFE and u32::MAX
U32Max == [i \in 0..31 |-> 1]

SeqInputs ==
  { U32(0), U32(1), U32(65535), U32(65536),
    [i \in 0..31 |-> IF i < 31 THEN 1 ELSE 0],
    [i \in 0..31 |-> IF i = 31 THEN 1 ELSE 0],
    [i \in 0..31 |-> IF i = 0 THEN 0 ELSE 1],
    U32Max }

\* the i64 whose one bits are the positions in S
I64Bits(S) == [i \in 0..63 |-> IF i \in S THEN 1 ELSE 0]

\* i64 keys that did not come from encode: -1, i64::MIN, a negative key whose
\* bits 47..54 spell the Bond tag, tag 1, tag 241 with a sequence, tag 8,
\* tag 0x1F0 (the Other tag with one more bit), tag 0xFF, tag 3; and, with a
\* known tag, 5 (Equity), bit 40 alone (Equity), the Other tag with sequence 1
KeyInputs ==
  { I64Bits(0..63), I64Bits({63}), I64Bits({63, 51}), I64Bits({47}),
    I64Bits({47, 51, 52, 53, 54, 0, 2}), I64Bits({50}),
    I64Bits({51, 52, 53, 54, 55}), I64Bits(47..54), I64Bits({47, 48, 1}),
    I64(5), I64Bits({40}), I64Bits({51, 52, 53, 54, 0}) }

\* the tags of the 13 categories, as i64
KnownTags ==
  { I64(m) : m \in {EQUITY_M, PFD_M, ADR_M, WRNT_M, BOND_M, OPT_M, FUT_M, ETF_M,
                    MUTF_M, CRYPT_M, FX_M, SWAP_M, OTHER_M} }

CodecInit ==
  /\ cpc = "idle"
  /\ st = "Equity"
  /\ id = U32(0)
  /\ encoded_id = I64(0)
  /\ decoded = None
  /\ key_sec_type = None

\* a caller encodes a (category, sequence) pair
CodecEncode ==
  /\ cpc \in {"idle", "decoded", "examined"}
  /\ \E t \in SecurityType, n \in SeqInputs :
       /\ st' = t
       /\ id' = n
       /\ encoded_id' = encode(t, n)
  /\ cpc' = "encoded"
  /\ decoded' = None
  /\ key_sec_type' = None
  /\ UNCHANGED <<newsVars, priceVars, symbolVars, topVars>>

\* a caller holds an i64 key that was not made by encode in this run (an s_id
\* read from a table, a key typed in)
CodecLoad ==
  /\ cpc \in {"idle", "decoded", "examined"}
  /\ encoded_id' \in KeyInputs
  /\ cpc' = "loaded"
  /\ decoded' = None
  /\ key_sec_type' = None
  /\ UNCHANGED <<st, id>>
  /\ UNCHANGED <<newsVars, priceVars, symbolVars, topVars>>

\* a caller decodes the key it holds
CodecDecode ==
  /\ cpc \in {"encoded", "loaded"}
  /\ decoded' = decode(encoded_id)
  /\ cpc' = IF cpc = "encoded" THEN "decoded" ELSE "examined"
  /\ UNCHANGED <<st, id, encoded_id, key_sec_type>>
  /\ UNCHANGED <<newsVars, priceVars, symbolVars, topVars>>

\* a caller asks for the category of the key it holds
CodecGetSecType ==
  /\ cpc \in {"encoded", "loaded"}
  /\ key_sec_type = None
  /\ key_sec_type' = [tag |-> "Some", security_type |-> get_sec_type(encoded_id)]
  /\ UNCHANGED <<cpc, st, id, encoded_id, decoded>>
  /\ UNCHANGED <<newsVars, priceVars, symbolVars, topVars>>

CodecNext == CodecEncode \/ CodecLoad \/ CodecDecode \/ CodecGetSecType

(***************************************************************************)
(* alpha_io/news_root.rs: the content fingerprint of a news feed.          *)
(* Strings are UTF-8 byte sequences; the table gives the bytes of the      *)
(* strings the model's feeds are built from.                               *)
(***************************************************************************)
Utf8(s) ==
  CASE s = "" -> <<>>
    [] s = "t1" -> <<116, 49>>
    [] s = "t2" -> <<116, 50>>
    [] s = "t3" -> <<116, 51>>
    [] s = "u" -> <<117>>
    [] s = "20240101T000000" -> <<50, 48, 50, 52, 48, 49, 48, 49, 84, 48, 48, 48, 48, 48, 48>>
    [] s = "bad" -> <<98, 97, 100>>
    [] s = "Au1" -> <<65, 117, 49>>
    [] s = "Au2" -> <<65, 117, 50>>
    [] s = "_None_" -> <<95, 78, 111, 110, 101, 95>>
    [] s = "S1" -> <<83, 49>>
    [] s = "S2" -> <<83, 50>>
    [] s = "d.com" -> <<100, 46, 99, 111, 109>>
    [] s = "T1" -> <<84, 49>>
    [] s = "T2" -> <<84, 50>>
    [] s = "0.5" -> <<48, 46, 53>>
    [] s = "n/a" -> <<110, 47, 97>>
    [] s = "Neutral" -> <<78, 101, 117, 116, 114, 97, 108>>
    [] s = "AAPL" -> <<65, 65, 80, 76>>
    [] s = "ZZZ" -> <<90, 90, 90>>

RECURSIVE Concat(_)
\* bytes.extend(...): the concatenation of parts[1], parts[2], ...
Concat(parts) ==
  IF parts = <<>> THEN <<>> ELSE Head(parts) \o Concat(Tail(parts))

\* bincode::options(): lengths are varints; a length below 251 is one byte
\* (the model's strings and vectors are all shorter than that)
VarintLen(n) == <<n>>

SerString(s) == VarintLen(Len(Utf8(s))) \o Utf8(s)

SerVecString(v) == VarintLen(Len(v)) \o Concat([i \in 1..Len(v) |-> SerString(v[i])])

\* struct Topic { topic, relevance_score }
SerTopic(t) == SerString(t.topic) \o SerString(t.relevance_score)

\* struct TickerSentiment { ticker, relevance_score, ticker_sentiment_score,
\*                          ticker_sentiment_label }
SerTickerSentiment(t) ==
  SerString(t.ticker) \o SerString(t.relevance_score)
    \o SerString(t.ticker_sentiment_score) \o SerString(t.ticker_sentiment_label)

\* bincode serialisation of one feed item, its fields in declaration order;
\* overall_sentiment_score is an f64, carried as its 8 little-endian bytes
SerFeed(a) ==
  SerString(a.title) \o SerString(a.url) \o SerString(a.time_published)
    \o SerVecString(a.authors) \o SerString(a.summary) \o SerString(a.banner_image)
    \o SerString(a.source) \o SerString(a.category_within_source)
    \o SerString(a.source_domain)
    \o VarintLen(Len(a.topics)) \o Concat([i \in 1..Len(a.topics) |-> SerTopic(a.topics[i])])
    \o a.overall_sentiment_score
    \o SerString(a.overall_sentiment_label)
    \o VarintLen(Len(a.ticker_sentiment)) \o Concat([i \in 1..Len(a.ticker_sentiment) |-> SerTickerSentiment(a.ticker_sentiment[i])])

\* serialize_to_bytes: every item serialised on its own, the results concatenated
serialize_to_bytes(items) == Concat([i \in 1..Len(items) |-> SerFeed(items[i])])

\* CRC-32 (crc32fast::Hasher) with the reflected polynomial 0xEDB88320.  The
\* 32-bit running value is the pair <<high 16 bits, low 16 bits>>.
CrcPolyHi == 60856
CrcPolyLo == 33568

RECURSIVE Xor(_, _, _)
\* bitwise exclusive or of two n-bit numbers
Xor(a, b, n) ==
  IF n = 0 THEN 0
  ELSE (((a % 2) + (b % 2)) % 2) + 2 * Xor(a \div 2, b \div 2, n - 1)

RECURSIVE CrcShift(_, _)
\* n rounds of: shift right by one, and xor the polynomial in if a one fell out
CrcShift(c, n) ==
  IF n = 0 THEN c
  ELSE LET hi == c[1] \div 2
           lo == (c[2] \div 2) + (c[1] % 2) * 32768
       IN  IF c[2] % 2 = 1
           THEN CrcShift(<<Xor(hi, CrcPolyHi, 16), Xor(lo, CrcPolyLo, 16)>>, n - 1)
           ELSE CrcShift(<<hi, lo>>, n - 1)

CrcByte(c, b) == CrcShift(<<c[1], Xor(c[2], b, 16)>>, 8)

RECURSIVE CrcRange(_, _, _, _)
\* the running value after bytes[from..to], taken in order (the first half is
\* computed before the second half is entered)
CrcRange(c, bytes, from, to) ==
  IF from > to THEN c
  ELSE IF from = to THEN CrcByte(c, bytes[from])
  ELSE LET mid  == (from + to) \div 2
           left == CrcRange(c, bytes, from, mid)
       IN  IF left[1] >= 0 THEN CrcRange(left, bytes, mid + 1, to) ELSE left

CrcUpdate(c, bytes) == CrcRange(c, bytes, 1, Len(bytes))

\* Hasher::new(), update(bytes), finalize(): the running value starts at all
\* ones and is complemented at the end
CrcFinalize(bytes) ==
  LET c == CrcUpdate(<<65535, 65535>>, bytes)
  IN  <<65535 - c[1], 65535 - c[2]>>

RECURSIVE LimbDigits(_, _)
\* the decimal digits of hi * 2^16 + lo, most significant first
LimbDigits(hi, lo) ==
  LET r    == hi % 10
      q_hi == hi \div 10
      low  == r * 65536 + lo
      q_lo == low \div 10
      d    == low % 10
  IN  IF q_hi = 0 /\ q_lo = 0 THEN <<d>> ELSE LimbDigits(q_hi, q_lo) \o <<d>>

\* u32::to_string()
U32ToString(c) == LimbDigits(c[1], c[2])

\* calculate_checksum(bytes)
calculate_checksum(bytes) == U32ToString(CrcFinalize(bytes))

F64Half == <<0, 0, 0, 0, 0, 0, 224, 63>>

Sentiment(ticker, score) ==
  [ticker |-> ticker, relevance_score |-> "0.5", ticker_sentiment_score |-> score,
   ticker_sentiment_label |-> "Neutral"]

Article(title, time, authors, source, topics, sentiments) ==
  [title |-> title, url |-> "u", time_published |-> time, authors |-> authors,
   summary |-> "", banner_image |-> "", source |-> source,
   category_within_source |-> "", source_domain |-> "d.com", topics |-> topics,
   overall_sentiment_score |-> F64Half, overall_sentiment_label |-> "Neutral",
   ticker_sentiment |-> sentiments]

A1 == Article("t1", "20240101T000000", <<"Au1">>, "S1",
              <<[topic |-> "T1", relevance_score |-> "0.5"]>>,
              <<Sentiment("AAPL", "0.5")>>)

A2 == Article("t2", "20240101T000000", <<>>, "S1",
              <<[topic |-> "T1", relevance_score |-> "0.5"],
                [topic |-> "T2", relevance_score |-> "n/a"]>>,
              <<Sentiment("ZZZ", "0.5"), Sentiment("AAPL", "n/a")>>)

A3 == Article("t3", "bad", <<"Au2", "Au1">>, "S2", <<>>, <<>>)

\* the feeds a provider response may carry
Feeds == {<<A1>>, <<A2>>, <<A1, A2>>, <<A3, A1>>, <<A1, A1>>}

\* the fingerprints of the feeds above, computed once
Fingerprint == [f \in Feeds |-> calculate_checksum(serialize_to_bytes(f))]

\* generate_hash_id(items)
generate_hash_id(items) ==
  IF items \in DOMAIN Fingerprint THEN Fingerprint[items]
  ELSE calculate_checksum(serialize_to_bytes(items))

(***************************************************************************)
(* alpha_io/news_loader.rs: NewsProcessingContext and NewsProcessor.       *)
(* A store table is the sequence of its rows; a serial id is the row's     *)
(* position.  A store operation named in the fault set F of a step fails.  *)
(***************************************************************************)
Ok(v) == [tag |-> "Ok", val |-> v]

Err(e) == [tag |-> "Err", err |-> e]

\* HashMap::insert
Put(m, k, v) == [x \in (DOMAIN m) \cup {k} |-> IF x = k THEN v ELSE m[x]]

Kinds == {"source", "author", "topic"}

Names == {"S1", "S2", "Au1", "Au2", "_None_", "T1", "T2"}

\* record of one get_or_insert call: how often the key was asked for, how
\* often the store insert was issued and how often it added a row, and the
\* ids handed back
Observe(w, kind, key, issued, res) ==
  [w EXCEPT !.reg[<<kind, key>>] =
     [@ EXCEPT !.calls    = @ + 1,
               !.attempts = @ + (IF issued THEN 1 ELSE 0),
               !.inserts  = @ + (IF issued /\ res.tag = "Ok" THEN 1 ELSE 0),
               !.ids      = @ \cup (IF res.tag = "Ok" THEN {res.val} ELSE {})]]

\* NewsProcessingContext::get_or_insert_source, the cache update left out
get_or_insert_source_nocache(w, source_name, source_domain, fail) ==
  IF source_name \in DOMAIN w.context.sources
  THEN LET r == Ok(w.context.sources[source_name])
       IN  [w |-> Observe(w, "source", source_name, FALSE, r), res |-> r]
  ELSE IF fail
  THEN LET r == Err("SourceOperation")
       IN  [w |-> Observe(w, "source", source_name, TRUE, r), res |-> r]
  ELSE LET new_id == Len(w.db.sources) + 1
           w1 == [w EXCEPT !.db.sources =
                    Append(@, [id |-> new_id, source_name |-> source_name,
                               domain |-> source_domain])]
           r  == Ok(new_id)
       IN  [w |-> Observe(w1, "source", source_name, TRUE, r), res |-> r]

\* NewsProcessingContext::get_or_insert_source
get_or_insert_source(w, source_name, source_domain, fail) ==
  IF source_name \in DOMAIN w.context.sources
  THEN LET r == Ok(w.context.sources[source_name])
       IN  [w |-> Observe(w, "source", source_name, FALSE, r), res |-> r]
  ELSE IF fail
  THEN LET r == Err("SourceOperation")
       IN  [w |-> Observe(w, "source", source_name, TRUE, r), res |-> r]
  ELSE LET new_id == Len(w.db.sources) + 1
           w1 == [w EXCEPT !.db.sources =
                    Append(@, [id |-> new_id, source_name |-> source_name,
                               domain |-> source_domain]),
                  !.context.sources = Put(@, source_name, new_id)]
           r  == Ok(new_id)
       IN  [w |-> Observe(w1, "source", source_name, TRUE, r), res |-> r]

\* a get_or_insert_author that goes to the store without looking in the map
get_or_insert_author_nolookup(w, author_name, fail) ==
  IF fail
  THEN LET r == Err("AuthorOperation")
       IN  [w |-> Observe(w, "author", author_name, TRUE, r), res |-> r]
  ELSE LET new_id == Len(w.db.authors) + 1
           w1 == [w EXCEPT !.db.authors =
                    Append(@, [id |-> new_id, author_name |-> author_name]),
                  !.context.authors = Put(@, author_name, new_id)]
           r  == Ok(new_id)
       IN  [w |-> Observe(w1, "author", author_name, TRUE, r), res |-> r]

\* NewsProcessingContext::get_or_insert_author
get_or_insert_author(w, author_name, fail) ==
  IF author_name \in DOMAIN w.context.authors
  THEN LET r == Ok(w.context.authors[author_name])
       IN  [w |-> Observe(w, "author", author_name, FALSE, r), res |-> r]
  ELSE IF fail
  THEN LET r == Err("AuthorOperation")
       IN  [w |-> Observe(w, "author", author_name, TRUE, r), res |-> r]
  ELSE LET new_id == Len(w.db.authors) + 1
           w1 == [w EXCEPT !.db.authors =
                    Append(@, [id |-> new_id, author_name |-> author_name]),
                  !.context.authors = Put(@, author_name, new_id)]
           r  == Ok(new_id)
       IN  [w |-> Observe(w1, "author", author_name, TRUE, r), res |-> r]

\* NewsProcessingContext::get_or_insert_topic
get_or_insert_topic(w, topic_name, fail) ==
  IF topic_name \in DOMAIN w.context.topics
  THEN LET r == Ok(w.context.topics[topic_name])
       IN  [w |-> Observe(w, "topic", topic_name, FALSE, r), res |-> r]
  ELSE IF fail
  THEN LET r == Err("TopicOperation")
       IN  [w |-> Observe(w, "topic", topic_name, TRUE, r), res |-> r]
  ELSE LET new_id == Len(w.db.topicrefs) + 1
           w1 == [w EXCEPT !.db.topicrefs =
                    Append(@, [id |-> new_id, name |-> topic_name]),
                  !.context.topics = Put(@, topic_name, new_id)]
           r  == Ok(new_id)
       IN  [w |-> Observe(w1, "topic", topic_name, TRUE, r), res |-> r]

\* the symbol_to_sid map the context is built with (with_symbols)
symbol_to_sid == [s \in {"AAPL"} |-> 1]

\* NewsProcessingContext::get_symbol_id
get_symbol_id(symbol) ==
  IF symbol \in DOMAIN symbol_to_sid
  THEN [tag |-> "Some", val |-> symbol_to_sid[symbol]]
  ELSE None

\* str::parse::<f64>() on the score strings of the model's feeds
ParsesF64(s) == s \in {"0.5"}

\* str::parse::<i32>() on the `items` strings of the model's payloads
ParseI32(s) ==
  CASE s = "0" -> Ok(0)
    [] s = "1" -> Ok(1)
    [] s = "2" -> Ok(2)
    [] s = "3" -> Ok(3)
    [] OTHER   -> Err("NumberParsing")

\* NaiveDateTime::parse_from_str(t, "%Y%m%dT%H%M%S") on time_published
ParsesTimePublished(s) == s \in {"20240101T000000"}

RECURSIVE process_article_topics(_, _, _, _)
\* NewsProcessor::process_article_topics: the first failure ends the loop
process_article_topics(w, topics, k, F) ==
  IF k > Len(topics) THEN [w |-> w, res |-> Ok(0)]
  ELSE LET g == get_or_insert_topic(w, topics[k].topic,
                                    (IF k = 1 THEN "topic1" ELSE "topic2") \in F)
       IN  IF g.res.tag = "Err" THEN g
           ELSE process_article_topics(g.w, topics, k + 1, F)

\* dbfunctions::articles::insert_article: the row's key is the digest of
\* title, url and summary, the primary key of the articles table
insert_article(w, source_id, a, author_id, fail) ==
  LET hash == <<a.title, a.url, a.summary>>
  IN  IF ~ParsesTimePublished(a.time_published) THEN [w |-> w, res |-> Err("ParseDate")]
      ELSE IF fail \/ \E i \in 1..Len(w.db.articles) : w.db.articles[i].hashid = hash
      THEN [w |-> w, res |-> Err("ArticleOperation")]
      ELSE [w |-> [w EXCEPT !.db.articles =
                     Append(@, [hashid |-> hash, sourceid |-> source_id,
                                author |-> author_id])],
            res |-> Ok(hash)]

\* dbfunctions::feed::insert_feed
insert_feed(w, symbol_id, overview_id, article_id, source_id, fail) ==
  IF fail THEN [w |-> w, res |-> Err("FeedOperation")]
  ELSE LET new_id == Len(w.db.feeds) + 1
       IN  [w |-> [w EXCEPT !.db.feeds =
                     Append(@, [id |-> new_id, sid |-> symbol_id,
                                newsoverviewid |-> overview_id,
                                articleid |-> article_id, sourceid |-> source_id])],
            res |-> Ok(new_id)]

\* NewsProcessor::process_single_sentiment
process_single_sentiment(w, sentiment, feed_id, fail) ==
  IF ~ParsesF64(sentiment.ticker_sentiment_score) \/ ~ParsesF64(sentiment.relevance_score)
  THEN [w |-> w, res |-> Err("FloatParsing")]
  ELSE LET sid == get_symbol_id(sentiment.ticker)
       IN  IF sid.tag = "None"
           THEN [w |-> [w EXCEPT !.missed = @ \cup {sentiment.ticker}], res |-> Ok(0)]
           ELSE IF fail THEN [w |-> w, res |-> Err("TickerSentimentOperation")]
           ELSE [w |-> [w EXCEPT !.db.tickersentiments =
                          Append(@, [sid |-> sid.val, feedid |-> feed_id])],
                 res |-> Ok(0)]

RECURSIVE process_sentiments(_, _, _, _, _)
\* NewsProcessor::process_sentiments: a failed sentiment is skipped
process_sentiments(w, sentiments, k, feed_id, fail) ==
  IF k > Len(sentiments) THEN w
  ELSE process_sentiments(process_single_sentiment(w, sentiments[k], feed_id, fail).w,
                          sentiments, k + 1, feed_id, fail)

\* NewsProcessor::process_single_topic_mapping
process_single_topic_mapping(w, symbol_id, topic, feed_id, fail) ==
  IF topic.topic \notin DOMAIN w.context.topics
  THEN [w |-> w, res |-> Err("InvalidTopicId")]
  ELSE LET topic_id == w.context.topics[topic.topic]
       IN  IF topic_id < 1 THEN [w |-> w, res |-> Err("InvalidTopicId")]
           ELSE IF ~ParsesF64(topic.relevance_score)
           THEN [w |-> w, res |-> Err("FloatParsing")]
           ELSE IF fail THEN [w |-> w, res |-> Err("TopicMapOperation")]
           ELSE [w |-> [w EXCEPT !.db.topicmaps =
                          Append(@, [sid |-> symbol_id, feedid |-> feed_id,
                                     topicid |-> topic_id])],
                 res |-> Ok(0)]

RECURSIVE process_topic_mappings(_, _, _, _, _, _)
\* NewsProcessor::process_topic_mappings: a failed mapping is skipped
process_topic_mappings(w, symbol_id, topics, k, feed_id, fail) ==
  IF k > Len(topics) THEN w
  ELSE process_topic_mappings(
         process_single_topic_mapping(w, symbol_id, topics[k], feed_id, fail).w,
         symbol_id, topics, k + 1, feed_id, fail)

\* NewsProcessor::process_author_mapping
process_author_mapping(w, feed_id, author_id, fail) ==
  IF fail THEN [w |-> w, res |-> Err("AuthorMapOperation")]
  ELSE [w |-> [w EXCEPT !.db.authormaps =
                 Append(@, [feedid |-> feed_id, authorid |-> author_id])],
        res |-> Ok(0)]

\* a process_single_article that goes on to the dependent rows when the feed
\* insert has failed
process_single_article_eager(w, symbol_id, article, overview_id, F) ==
  LET s == get_or_insert_source(w, article.source, article.source_domain, "source" \in F)
  IN  IF s.res.tag = "Err" THEN s ELSE
  LET author_name == IF article.authors = <<>> THEN "_None_" ELSE article.authors[1]
      a == get_or_insert_author(s.w, author_name, "author" \in F)
  IN  IF a.res.tag = "Err" THEN a ELSE
  LET t == process_article_topics(a.w, article.topics, 1, F)
  IN  IF t.res.tag = "Err" THEN t ELSE
  LET r == insert_article(t.w, s.res.val, article, a.res.val, "article" \in F)
  IN  IF r.res.tag = "Err" THEN r ELSE
  LET f == insert_feed(r.w, symbol_id, overview_id, r.res.val, s.res.val, "feed" \in F)
      feed_id == IF f.res.tag = "Err" THEN 0 ELSE f.res.val
      w1 == process_sentiments(f.w, article.ticker_sentiment, 1, feed_id,
                               "sentiment" \in F)
      w2 == process_topic_mappings(w1, symbol_id, article.topics, 1, feed_id,
                                   "topicmap" \in F)
  IN  process_author_mapping(w2, feed_id, a.res.val, "authormap" \in F)

\* NewsProcessor::process_single_article
process_single_article(w, symbol_id, article, overview_id, F) ==
  LET s == get_or_insert_source(w, article.source, article.source_domain, "source" \in F)
  IN  IF s.res.tag = "Err" THEN s ELSE
  LET author_name == IF article.authors = <<>> THEN "_None_" ELSE article.authors[1]
      a == get_or_insert_author(s.w, author_name, "author" \in F)
  IN  IF a.res.tag = "Err" THEN a ELSE
  LET t == process_article_topics(a.w, article.topics, 1, F)
  IN  IF t.res.tag = "Err" THEN t ELSE
  LET r == insert_article(t.w, s.res.val, article, a.res.val, "article" \in F)
  IN  IF r.res.tag = "Err" THEN r ELSE
  LET f == insert_feed(r.w, symbol_id, overview_id, r.res.val, s.res.val, "feed" \in F)
  IN  IF f.res.tag = "Err" THEN f ELSE
  LET w1 == process_sentiments(f.w, article.ticker_sentiment, 1, f.res.val,
                               "sentiment" \in F)
      w2 == process_topic_mappings(w1, symbol_id, article.topics, 1, f.res.val,
                                   "topicmap" \in F)
  IN  process_author_mapping(w2, f.res.val, a.res.val, "authormap" \in F)

\* an insert_news_root whose digest also covers the creation date
insert_news_root_dated(w, symbol_id, item_count, news, today, fail) ==
  LET hash_id == <<generate_hash_id(news), today>>
      wd == [w EXCEPT !.digests = Append(@, [news |-> news, hashid |-> hash_id])]
  IN  IF fail THEN [w |-> w, res |-> Err("NewsRootOperation")]
      ELSE LET new_id == Len(w.db.newsoverviews) + 1
           IN  [w |-> [wd EXCEPT !.db.newsoverviews =
                         Append(@, [id |-> new_id, sid |-> symbol_id, items |-> item_count,
                                    hashid |-> hash_id, creation |-> today])],
                res |-> Ok(new_id)]

\* alpha_io::news_root::insert_news_root: every call adds a snapshot row that
\* carries the feed's fingerprint; `digests` keeps each stored digest with the
\* feed it was computed from
insert_news_root(w, symbol_id, item_count, news, today, fail) ==
  LET hash_id == generate_hash_id(news)
      wd == [w EXCEPT !.digests = Append(@, [news |-> news, hashid |-> hash_id])]
  IN  IF fail THEN [w |-> w, res |-> Err("NewsRootOperation")]
      ELSE LET new_id == Len(w.db.newsoverviews) + 1
           IN  [w |-> [wd EXCEPT !.db.newsoverviews =
                         Append(@, [id |-> new_id, sid |-> symbol_id, items |-> item_count,
                                    hashid |-> hash_id, creation |-> today])],
                res |-> Ok(new_id)]

(***************************************************************************)
(* The news run: inputs, initial state and steps                           *)
(***************************************************************************)
MaxRoots == 2
MaxFaults == 1

\* NewsRoot payloads: the `items` string and the feed
Roots ==
  {[items |-> "x", feed |-> <<A1>>], [items |-> "0", feed |-> <<>>]}
    \cup {[items |-> IF Len(f) = 2 THEN "2" ELSE "1", feed |-> f] : f \in Feeds}

Sids == {1, 2}

\* the calendar day create_creation_timestamp reads from the clock
Days == {1, 2}

FaultPoints ==
  {"source", "author", "topic1", "topic2", "article", "feed", "sentiment",
   "topicmap", "authormap"}

EmptyDb ==
  [sources |-> <<>>, authors |-> <<>>, topicrefs |-> <<>>, newsoverviews |-> <<>>,
   articles |-> <<>>, feeds |-> <<>>, tickersentiments |-> <<>>, topicmaps |-> <<>>,
   authormaps |-> <<>>]

NoCalls ==
  [k \in Kinds \X Names |->
     [cached0 |-> FALSE, calls |-> 0, attempts |-> 0, inserts |-> 0, ids |-> {}]]

\* Params::from(NewsProcessingContext) with the authors left behind
ParamsFrom_noauthors(context) ==
  [topics |-> context.topics, authors |-> <<>>, sources |-> context.sources]

\* Params::from(NewsProcessingContext)
ParamsFrom(context) ==
  [topics |-> context.topics, authors |-> context.authors, sources |-> context.sources]

\* NewsProcessingContext::from(Params)
ContextFrom(params) ==
  [topics |-> params.topics, authors |-> params.authors, sources |-> params.sources]

\* NewsProcessor::new(), or with_context() over the maps bin/load_news.rs
\* reads from the store's tables before the run
NewsStart(preloaded) ==
  /\ npc = "idle"
  /\ world =
       [context |-> [topics |-> <<>>, authors |-> <<>>,
                     sources |-> IF preloaded THEN [n \in {"S1"} |-> 1] ELSE <<>>],
        db |-> [EmptyDb EXCEPT !.sources =
                  IF preloaded
                  THEN <<[id |-> 1, source_name |-> "S1", domain |-> "d.com"]>>
                  ELSE <<>>],
        reg |-> [NoCalls EXCEPT ![<<"source", "S1">>].cached0 = preloaded],
        missed |-> {},
        digests |-> <<>>,
        params |-> [topics |-> <<>>, authors |-> <<>>,
                    sources |-> IF preloaded THEN [n \in {"S1"} |-> 1] ELSE <<>>]]
  /\ root = [symbol_id |-> 0, feed |-> <<>>, overview_id |-> 0, i |-> 0]
  /\ nresult = "none"
  /\ art_results = <<>>
  /\ roots_done = 0
  /\ nfaults = 0
  /\ reg_call = None

NewsInit == \E preloaded \in BOOLEAN : NewsStart(preloaded)

\* process_news: the processor made from params, then
\* NewsProcessor::process_news_root up to the start of process_articles
ProcessNewsRoot ==
  /\ npc = "idle"
  /\ roots_done < MaxRoots
  /\ roots_done' = roots_done + 1
  /\ art_results' = <<>>
  /\ \E symbol_id \in Sids, r \in Roots, today \in Days, fail \in BOOLEAN :
       /\ fail => nfaults < MaxFaults
       /\ LET item_count == ParseI32(r.items)
              g == insert_news_root([world EXCEPT !.context = ContextFrom(world.params)],
                                    symbol_id, item_count.val, r.feed, today, fail)
          IN  IF item_count.tag = "Err"
              THEN /\ ~fail
                   /\ nresult' = "Err"
                   /\ UNCHANGED <<npc, world, root, nfaults>>
              ELSE IF item_count.val < 1
              THEN /\ ~fail
                   /\ nresult' = "Ok"
                   /\ UNCHANGED <<npc, world, root, nfaults>>
              ELSE IF g.res.tag = "Err"
              THEN /\ nresult' = "Err"
                   /\ nfaults' = nfaults + 1
                   /\ UNCHANGED <<npc, world, root>>
              ELSE /\ npc' = "articles"
                   /\ world' = g.w
                   /\ root' = [symbol_id |-> symbol_id, feed |-> r.feed,
                               overview_id |-> g.res.val, i |-> 0]
                   /\ nresult' = "none"
                   /\ UNCHANGED nfaults
  /\ UNCHANGED reg_call
  /\ UNCHANGED <<codecVars, priceVars, symbolVars, topVars>>

\* what the loop of process_articles does with the result of one article
after_article_abort(res) == IF res.tag = "Err" THEN "return" ELSE "next"

after_article(res) == "next"

\* one round of the loop of NewsProcessor::process_articles
ProcessArticle ==
  /\ npc = "articles"
  /\ root.i < Len(root.feed)
  /\ \E F \in SUBSET FaultPoints :
       /\ Cardinality(F) <= MaxFaults - nfaults
       /\ LET g == process_single_article(world, root.symbol_id, root.feed[root.i + 1],
                                          root.overview_id, F)
          IN  /\ world' = g.w
              /\ art_results' = Append(art_results, g.res.tag)
              /\ IF after_article(g.res) = "next"
                 THEN /\ root' = [root EXCEPT !.i = @ + 1]
                      /\ UNCHANGED <<npc, nresult>>
                 ELSE /\ npc' = "idle"
                      /\ nresult' = "Err"
                      /\ UNCHANGED root
       /\ nfaults' = nfaults + Cardinality(F)
  /\ UNCHANGED <<roots_done, reg_call>>
  /\ UNCHANGED <<codecVars, priceVars, symbolVars, topVars>>

\* the end of process_articles and of process_news_root, and the Ok arm of
\* process_news
ArticlesDone ==
  /\ npc = "articles"
  /\ root.i = Len(root.feed)
  /\ npc' = "idle"
  /\ nresult' = "Ok"
  /\ world' = [world EXCEPT !.params = ParamsFrom(world.context)]
  /\ UNCHANGED <<root, art_results, roots_done, nfaults, reg_call>>
  /\ UNCHANGED <<codecVars, priceVars, symbolVars, topVars>>

NewsNext == ProcessNewsRoot \/ ProcessArticle \/ ArticlesDone

(***************************************************************************)
(* The registry on its own: single get_or_insert_<kind> calls on one       *)
(* NewsProcessingContext, each seen with the world it started from.        *)
(***************************************************************************)
MaxCalls == 4

\* the map of the context that a registry kind uses
CacheOf(w, kind) ==
  CASE kind = "source" -> w.context.sources
    [] kind = "author" -> w.context.authors
    [] kind = "topic"  -> w.context.topics

\* the natural keys asked for, per kind
KeysOf(kind) ==
  CASE kind = "source" -> {"S1", "S2"}
    [] kind = "author" -> {"Au1", "_None_"}
    [] kind = "topic"  -> {"T1", "T2"}

\* the record kept of a call that started in world w
CallOf(w, kind, key, g) ==
  [kind |-> kind, key |-> key, hit |-> key \in DOMAIN CacheOf(w, kind),
   before |-> w, res |-> g.res]

RegistryStep(kind, key, fail, g) ==
  /\ roots_done < MaxCalls
  /\ fail => (nfaults < MaxFaults /\ key \notin DOMAIN CacheOf(world, kind))
  /\ world' = g.w
  /\ reg_call' = CallOf(world, kind, key, g)
  /\ roots_done' = roots_done + 1
  /\ nfaults' = IF fail THEN nfaults + 1 ELSE nfaults
  /\ UNCHANGED <<npc, root, nresult, art_results>>
  /\ UNCHANGED <<codecVars, priceVars, symbolVars, topVars>>

GetOrInsertSource ==
  \E key \in KeysOf("source"), fail \in BOOLEAN :
    RegistryStep("source", key, fail, get_or_insert_source(world, key, "d.com", fail))

GetOrInsertAuthor ==
  \E key \in KeysOf("author"), fail \in BOOLEAN :
    RegistryStep("author", key, fail, get_or_insert_author(world, key, fail))

GetOrInsertTopic ==
  \E key \in KeysOf("topic"), fail \in BOOLEAN :
    RegistryStep("topic", key, fail, get_or_insert_topic(world, key, fail))

RegistryNext == GetOrInsertSource \/ GetOrInsertAuthor \/ GetOrInsertTopic


(***************************************************************************)
(* Watermark filters: persist_ticks and load_summary (alpha_io/base.rs)    *)
(***************************************************************************)
MaxRows == 3
MaxSyncs == 2
MaxPFaults == 1

\* NaiveDateTime::parse_from_str(s, "%Y-%m-%d %H:%M:%S") on the timestamps of the
\* model's payloads; the ISO form with a 'T' does not match the format
ParseTimestamp(s) ==
  CASE s = "2023-12-31 23:59:59" -> Ok(<<2023, 12, 31, 23, 59, 59>>)
    [] s = "2024-01-01 00:00:00" -> Ok(<<2024, 1, 1, 0, 0, 0>>)
    [] s = "2024-01-01 00:00:01" -> Ok(<<2024, 1, 1, 0, 0, 1>>)
    [] OTHER                     -> Err("ChronoParse")

\* NaiveDate::parse_from_str(s, "%Y-%m-%d") on the dates of the model's payloads
ParseDate(s) ==
  CASE s = "2023-12-31" -> Ok(<<2023, 12, 31>>)
    [] s = "2024-01-01" -> Ok(<<2024, 1, 1>>)
    [] s = "2024-01-02" -> Ok(<<2024, 1, 2>>)
    [] OTHER            -> Err("ChronoParse")

Timestamps ==
  {"2023-12-31 23:59:59", "2024-01-01 00:00:00", "2024-01-01 00:00:01",
   "2024-01-01T00:00:01"}

Dates == {"2023-12-31", "2024-01-01", "2024-01-02", "2024-13-01"}

GreaterOrEqual(a, b) ==
  \/ a = b
  \/ \E i \in 1..Len(a) : a[i] > b[i] /\ \A j \in 1..(i - 1) : a[j] = b[j]

\* `>` on NaiveDateTime and NaiveDate: the order on (year, month, day, ...)
Greater(a, b) ==
  \E i \in 1..Len(a) : a[i] > b[i] /\ \A j \in 1..(i - 1) : a[j] = b[j]

\* `order(tstamp.desc()).first()` of get_intr_day_max_date and get_summary_max_date:
\* the latest stored instant, NoData when the entity has no row
MaxDate(table) ==
  IF table = {} THEN Err("NoData")
  ELSE Ok(CHOOSE t \in table : \A u \in table : u = t \/ Greater(t, u))

Payloads(S) == UNION {[1..n -> S] : n \in 0..MaxRows}

\* parse_intraday_from_csv: the records of the payload, timestamps still text
IntradayPayloads == Payloads(Timestamps)

\* the "Time Series (Daily)" object: its keys are distinct
DailyPayloads ==
  {p \in Payloads(Dates) : \A i, j \in 1..Len(p) : p[i] = p[j] => i = j}

\* get_open_close: gen_new_summary_price drops the entries that do not parse
get_open_close(p) == SelectSeq(p, LAMBDA d : ParseDate(d).tag = "Ok")

\* no sync has run; the entity's stored rows are ti (intraday) and td (daily)
PriceStart(ti, td) ==
  /\ ppc = "idle"
  /\ ptable = [intraday |-> ti, daily |-> td]
  /\ rows = <<>>
  /\ lookup = "none"
  /\ last_date = None
  /\ pidx = 0
  /\ plog = <<>>
  /\ presult = "none"
  /\ psyncs = 0
  /\ pfaults = 0
  /\ pheader = TRUE

PriceInit ==
  \E ti \in {{}, {<<2024, 1, 1, 0, 0, 0>>}}, td \in {{}, {<<2024, 1, 1>>}} :
    PriceStart(ti, td)

Some(v) == [tag |-> "Some", val |-> v]

\* what a row insert (create_intra_day, insert_open_close) can do: store the row
\* and set the symbol's flag, fail to store it, or store it and fail on the flag
InsertOutcomes == {"ok", "insert_failed", "flag_failed"}

Stored(table, t, outcome) == IF outcome = "insert_failed" THEN table ELSE table \cup {t}

\* a header check that lets every payload through
lacks_header_ignored(has) == FALSE

\* `if !text.contains(HEADER) { return Ok(()); }`
lacks_header(has) == ~has

\* a loop that takes the rows from the last to the first
RowAt_reversed(rs, done) == rs[Len(rs) - done]

\* `for tick in ticks`, `for oc in daily_prices`: the row examined after `done`
\* rows is the next element of the Vec
RowAt(rs, done) == rs[done + 1]

\* a threshold that follows the table: the latest instant stored by now
Watermark_refreshed(read, table) ==
  IF table = {} THEN None ELSE Some(MaxDate(table).val)

\* the threshold a row is compared with: the local `last_date`, bound once
\* before the loop; the table is not looked at again
Watermark(read, table) == read

\* load_intraday from the header check to the watermark lookup of persist_ticks
LoadIntraday ==
  /\ ppc = "idle"
  /\ psyncs < MaxSyncs
  /\ psyncs' = psyncs + 1
  /\ plog' = <<>>
  /\ pidx' = 0
  /\ \E header \in BOOLEAN, ticks \in IntradayPayloads, fail \in BOOLEAN :
       /\ fail => pfaults < MaxPFaults
       /\ pheader' = header
       /\ LET m == MaxDate(ptable.intraday)
          IN  IF lacks_header(header)
              THEN /\ ticks = <<>> /\ ~fail
                   /\ presult' = "Ok"
                   /\ lookup' = "none"
                   /\ rows' = <<>>
                   /\ UNCHANGED <<ppc, last_date, pfaults>>
              ELSE IF fail
              THEN /\ presult' = "DBFuncs"
                   /\ lookup' = "Err"
                   /\ rows' = ticks
                   /\ pfaults' = pfaults + 1
                   /\ UNCHANGED <<ppc, last_date>>
              ELSE /\ ppc' = "ticks"
                   /\ presult' = "none"
                   /\ rows' = ticks
                   /\ lookup' = IF m.tag = "Ok" THEN "Some" ELSE "NoData"
                   /\ last_date' = IF m.tag = "Ok" THEN Some(m.val) ELSE None
                   /\ UNCHANGED pfaults
  /\ UNCHANGED ptable
  /\ UNCHANGED <<codecVars, newsVars, symbolVars, topVars>>

\* one round of the loop of persist_ticks
PersistTick ==
  /\ ppc = "ticks"
  /\ pidx < Len(rows)
  /\ LET tstamp == ParseTimestamp(RowAt(rows, pidx))
     IN  IF tstamp.tag = "Err"
         THEN /\ ppc' = "idle"
              /\ presult' = "ChronoParse"
              /\ UNCHANGED <<ptable, pidx, plog, pfaults>>
         ELSE IF \/ Watermark(last_date, ptable.intraday) = None
                 \/ Greater(tstamp.val, Watermark(last_date, ptable.intraday).val)
         THEN \E outcome \in InsertOutcomes :
                /\ outcome # "ok" => pfaults < MaxPFaults
                /\ pfaults' = pfaults + (IF outcome = "ok" THEN 0 ELSE 1)
                /\ ptable' = [ptable EXCEPT !.intraday = Stored(@, tstamp.val, outcome)]
                /\ plog' = Append(plog, [row |-> pidx + 1, instant |-> tstamp.val,
                                         issued |-> TRUE, outcome |-> outcome])
                /\ pidx' = pidx + 1
                /\ UNCHANGED <<ppc, presult>>
         ELSE /\ plog' = Append(plog, [row |-> pidx + 1, instant |-> tstamp.val,
                                       issued |-> FALSE, outcome |-> "none"])
              /\ pidx' = pidx + 1
              /\ UNCHANGED <<ppc, presult, ptable, pfaults>>
  /\ UNCHANGED <<rows, lookup, last_date, psyncs, pheader>>
  /\ UNCHANGED <<codecVars, newsVars, symbolVars, topVars>>

\* the end of persist_ticks and of load_intraday
PersistTicksDone ==
  /\ ppc = "ticks"
  /\ pidx = Len(rows)
  /\ ppc' = "idle"
  /\ presult' = "Ok"
  /\ UNCHANGED <<ptable, rows, lookup, last_date, pidx, plog, psyncs, pfaults, pheader>>
  /\ UNCHANGED <<codecVars, newsVars, symbolVars, topVars>>

\* load_summary from the header check to the watermark lookup
LoadSummary ==
  /\ ppc = "idle"
  /\ psyncs < MaxSyncs
  /\ psyncs' = psyncs + 1
  /\ plog' = <<>>
  /\ pidx' = 0
  /\ \E header \in BOOLEAN, payload \in DailyPayloads, fail \in BOOLEAN :
       /\ fail => pfaults < MaxPFaults
       /\ pheader' = header
       /\ LET daily_prices == get_open_close(payload)
              m == MaxDate(ptable.daily)
          IN  IF lacks_header(header)
              THEN /\ payload = <<>> /\ ~fail
                   /\ presult' = "Ok"
                   /\ lookup' = "none"
                   /\ rows' = <<>>
                   /\ UNCHANGED <<ppc, last_date, pfaults>>
              ELSE IF fail
              THEN /\ presult' = "DBFuncs"
                   /\ lookup' = "Err"
                   /\ rows' = daily_prices
                   /\ pfaults' = pfaults + 1
                   /\ UNCHANGED <<ppc, last_date>>
              ELSE IF m.tag = "Err"
              THEN /\ presult' = "NoData"
                   /\ lookup' = "NoData"
                   /\ rows' = daily_prices
                   /\ UNCHANGED <<ppc, last_date, pfaults>>
              ELSE /\ ppc' = "daily"
                   /\ presult' = "none"
                   /\ rows' = daily_prices
                   /\ lookup' = "Some"
                   /\ last_date' = Some(m.val)
                   /\ UNCHANGED pfaults
  /\ UNCHANGED ptable
  /\ UNCHANGED <<codecVars, newsVars, symbolVars, topVars>>

\* one round of the loop of load_summary
SummaryRow ==
  /\ ppc = "daily"
  /\ pidx < Len(rows)
  /\ LET date == ParseDate(RowAt(rows, pidx)).val
     IN  IF Greater(date, Watermark(last_date, ptable.daily).val)
         THEN \E outcome \in InsertOutcomes :
                /\ outcome # "ok" => pfaults < MaxPFaults
                /\ pfaults' = pfaults + (IF outcome = "ok" THEN 0 ELSE 1)
                /\ ptable' = [ptable EXCEPT !.daily = Stored(@, date, outcome)]
                /\ plog' = Append(plog, [row |-> pidx + 1, instant |-> date,
                                         issued |-> TRUE, outcome |-> outcome])
                /\ pidx' = pidx + 1
                /\ IF outcome = "ok"
                   THEN UNCHANGED <<ppc, presult>>
                   ELSE ppc' = "idle" /\ presult' = "DBFuncs"
         ELSE /\ plog' = Append(plog, [row |-> pidx + 1, instant |-> date,
                                       issued |-> FALSE, outcome |-> "none"])
              /\ pidx' = pidx + 1
              /\ UNCHANGED <<ppc, presult, ptable, pfaults>>
  /\ UNCHANGED <<rows, lookup, last_date, psyncs, pheader>>
  /\ UNCHANGED <<codecVars, newsVars, symbolVars, topVars>>

\* the end of load_summary
SummaryDone ==
  /\ ppc = "daily"
  /\ pidx = Len(rows)
  /\ ppc' = "idle"
  /\ presult' = "Ok"
  /\ UNCHANGED <<ptable, rows, lookup, last_date, pidx, plog, psyncs, pfaults, pheader>>
  /\ UNCHANGED <<codecVars, newsVars, symbolVars, topVars>>

PriceNext ==
  \/ LoadIntraday
  \/ PersistTick
  \/ PersistTicksDone
  \/ LoadSummary
  \/ SummaryRow
  \/ SummaryDone

(***************************************************************************)
(* Symbol batch: process_symbols (alpha_io/base.rs) and the loop of        *)
(* bin/load_missed_overviews.rs                                            *)
(***************************************************************************)
MAX_ERRORS == 50

\* min_time / MIN_TIME, in milliseconds
min_time == 350

\* std::thread::sleep(Duration::from_secs(1)), in milliseconds
PenaltySleep == 1000

MaxResponses == 2
MaxSFaults == 1
MaxOverviews == 3

TooManyErrors_lenient(n) == n > MAX_ERRORS + 1

TooManyErrors_early(n) == n >= MAX_ERRORS

\* `err_ct > MAX_ERRORS`
TooManyErrors(n) == n > MAX_ERRORS

err_ct_after_reset(body_ok, n) == IF body_ok THEN 0 ELSE n + 1

\* the match on resp.text(): `err_ct += 1` on Err, nothing on Ok
err_ct_after(body_ok, n) == IF body_ok THEN n ELSE n + 1

rate_sleep_never(dt) == 0

\* `if dur_time - resp_time < min_time { sleep(1 s) }`: the time slept
rate_sleep(dt) == IF dt < min_time THEN PenaltySleep ELSE 0

\* alpha_funcs::normalize_alpha_region
normalize_alpha_region(region) ==
  CASE region = "United States"    -> "USA"
    [] region = "United Kingdom"   -> "UK"
    [] region = "Frankfurt"        -> "Frank"
    [] region = "Toronto Venture"  -> "TOR"
    [] region = "India/Bombay"     -> "Bomb"
    [] region = "Brazil/Sao Paolo" -> "SaoP"
    [] OTHER                       -> region

AlphaSymbol(symbol, name, s_type, region) ==
  [symbol |-> symbol, name |-> name, s_type |-> s_type, region |-> region]

R_AAPL == AlphaSymbol("AAPL", "Apple Inc", "Equity", "United States")
R_MSFT == AlphaSymbol("MSFT", "Microsoft Corporation", "Equity", "United States")
R_SHOP == AlphaSymbol("SHOP", "Shopify Inc", "Equity", "Toronto")
R_SPY  == AlphaSymbol("SPY", "SPDR S&P 500 ETF Trust", "ETF", "United States")
R_WT   == AlphaSymbol("ACAHW", "Atlantic Coastal Warrant", "Equity", "United States")
\* a row that does not deserialize into an AlphaSymbol
R_BAD  == [malformed |-> TRUE]

\* the record lists a symbol-search response may carry
Responses ==
  {<<R_AAPL, R_AAPL, R_MSFT>>, <<R_MSFT, R_SHOP>>, <<R_SPY, R_WT, R_AAPL>>,
   <<R_SHOP>>, <<R_BAD, R_MSFT>>}

\* s_name.to_lowercase().contains(..), on the names of the records above
NameContains(name, needle) == name = "Atlantic Coastal Warrant" /\ needle = "warrant"

\* SecurityType::get_detailed_sec_type
get_detailed_sec_type(s_typ, s_name) ==
  LET by_type ==
        CASE s_typ = "Equity"      -> <<"Equity", "Eqty">>
          [] s_typ = "ETF"         -> <<"ETF", "ETF">>
          [] s_typ = "Mutual Fund" -> <<"MutualF", "MutF">>
          [] OTHER                 -> <<"Other", "Other">>
  IN  IF NameContains(s_name, "adr") THEN <<"Adr", "Adr">>
      ELSE IF NameContains(s_name, "warrant") \/ NameContains(s_name, "wrnt")
      THEN <<"Wrnt", "Wrnt">>
      ELSE IF NameContains(s_name, "pfd") THEN <<"Pfd", "Pfd">>
      ELSE by_type

SecTypeStrings == {"Eqty", "ETF", "MutF", "Adr", "Wrnt", "Pfd", "Other"}

\* dbfunctions::sid::get_next_sid: one more than the highest sid of the type, 1
\* when the table has no symbol of the type
get_next_sid(maxes, s_type) == IF maxes[s_type] = 0 THEN 1 ELSE maxes[s_type] + 1

\* the times, in milliseconds after resp_time, at which a rate check may be made
Times == {0, 100, 349, 350, 500}

NoWait == [checked |-> FALSE, elapsed |-> 0, wait |-> 0]

\* the state at the head of the loop of process_symbols (load_missed copies the
\* registered USA equities `registered` into symbol_map), or of the overview loop
SymbolStart(p, lm, registered) ==
  /\ prog = p
  /\ spc = "request"
  /\ load_missed = lm
  /\ symbol_map = IF lm THEN registered ELSE {}
  /\ type_map = [t \in SecurityType |-> 0]
  /\ sid_max = [t \in SecTypeStrings |-> IF t = "Eqty" THEN Cardinality(registered) ELSE 0]
  /\ err_ct = 0
  /\ recs = <<>>
  /\ slog = <<>>
  /\ last = "none"
  /\ elapsed = 0
  /\ last_wait = NoWait
  /\ responses = 0
  /\ sresult = "none"
  /\ sfaults = 0
  /\ symbols0 = registered
  /\ base_sid = 1

\* a line "symbol,name" of the list given to process_digital_symbols
DigitalLine(symbol, name) == [symbol |-> symbol, name |-> name, region |-> "USA"]

\* the lines of the model; the last one has no comma
DigitalLines ==
  {DigitalLine("BTC", "Bitcoin"), DigitalLine("ETH", "Ethereum"), [malformed |-> TRUE]}

MaxLines == 3

DigitalLists == UNION {[1..n -> DigitalLines] : n \in 0..MaxLines}

\* process_digital_symbols at the head of its loop
DigitalStart(sed_vec, registered) ==
  /\ prog = "process_digital_symbols"
  /\ spc = "records"
  /\ load_missed = FALSE
  /\ symbol_map = {}
  /\ type_map = [t \in SecurityType |-> 0]
  /\ sid_max = [t \in SecTypeStrings |-> 0]
  /\ err_ct = 0
  /\ recs = sed_vec
  /\ slog = <<>>
  /\ last = "none"
  /\ elapsed = 0
  /\ last_wait = NoWait
  /\ responses = 0
  /\ sresult = "none"
  /\ sfaults = 0
  /\ symbols0 = registered
  /\ base_sid = 1

SymbolInit ==
  \/ \E lm \in BOOLEAN, registered \in {{}, {"AAPL"}} :
       SymbolStart("process_symbols", lm, registered)
  \/ SymbolStart("load_missed_overviews", FALSE, {})
  \/ \E sed_vec \in DigitalLists, registered \in {{}, {"BTC"}} :
       DigitalStart(sed_vec, registered)

\* one round of the loop over sec_vec, from the request to the start of the
\* loop over the records of the response
SymbolRequest ==
  /\ prog = "process_symbols"
  /\ spc = "request"
  /\ \E outcome \in {"transport_err", "body_err", "no_symbol", "records"} :
       /\ last' = outcome
       /\ LET body_ok == outcome # "body_err"
              n == IF outcome = "transport_err" THEN err_ct
                   ELSE err_ct_after(body_ok, err_ct)
          IN  /\ err_ct' = n
              /\ IF outcome = "transport_err"
                 THEN UNCHANGED <<spc, sresult, recs, responses>>
                 ELSE IF outcome = "body_err"
                 THEN /\ spc' = IF TooManyErrors(n) THEN "aborted" ELSE "request"
                      /\ sresult' = IF TooManyErrors(n) THEN "Reqwest" ELSE sresult
                      /\ UNCHANGED <<recs, responses>>
                 ELSE IF TooManyErrors(n)
                 THEN /\ spc' = "aborted"
                      /\ sresult' = "MaxExceeded"
                      /\ UNCHANGED <<recs, responses>>
                 ELSE IF outcome = "no_symbol"
                 THEN UNCHANGED <<spc, sresult, recs, responses>>
                 ELSE /\ responses < MaxResponses
                      /\ responses' = responses + 1
                      /\ \E r \in Responses : recs' = r
                      /\ spc' = "records"
                      /\ UNCHANGED sresult
  /\ elapsed' = 0
  /\ UNCHANGED <<prog, load_missed, symbol_map, type_map, sid_max, slog, last_wait, sfaults,
                 symbols0, base_sid>>
  /\ UNCHANGED <<codecVars, newsVars, priceVars, topVars>>

already_seen_never(map, symbol) == FALSE

\* `symbol_map.insert(record.symbol.clone(), 1).is_some()`
already_seen(map, symbol) == symbol \in map

\* the sids of the symbols table when the run began: a table that holds AAPL
\* or BTC got them from an earlier run, which gave them the first number of
\* their category
InitialSids(registered) ==
  {encode(IF sym = "BTC" THEN "Crypto" ELSE "Equity", U32(1)) : sym \in registered}

\* a symbols table that takes any sid
sid_taken_never(registered, log, s_id) == FALSE

\* create_symbol on a sid the table holds fails: sid is the primary key
sid_taken(registered, log, s_id) ==
  \/ s_id \in InitialSids(registered)
  \/ \E k \in 1..Len(log) : log[k].what = "created" /\ log[k].s_id = s_id

\* the record of what was done with one record of a response
Logged(record, what, s_id) ==
  Append(slog, [symbol |-> record.symbol, region |-> record.region, what |-> what,
                s_id |-> s_id])

\* one round of the loop over the records of a response
SymbolRecord ==
  /\ prog = "process_symbols"
  /\ spc = "records"
  /\ recs # <<>>
  /\ recs' = Tail(recs)
  /\ LET record == Head(recs)
     IN  IF "malformed" \in DOMAIN record
         THEN /\ spc' = "panicked"
              /\ sresult' = "panic"
              /\ UNCHANGED <<symbol_map, type_map, sid_max, slog, elapsed, last_wait, sfaults>>
         ELSE IF already_seen(symbol_map, record.symbol)
         THEN /\ slog' = Logged(record, "duplicate", None)
              /\ UNCHANGED <<spc, sresult, symbol_map, type_map, sid_max, elapsed,
                             last_wait, sfaults>>
         ELSE
           LET detailed == get_detailed_sec_type(record.s_type, record.name)
               sec_type == detailed[1]
               sec_type_string == detailed[2]
               region == normalize_alpha_region(record.region)
               counted == [type_map EXCEPT ![sec_type] = @ + 1]
           IN  /\ symbol_map' = symbol_map \cup {record.symbol}
               /\ IF load_missed /\ region # "USA"
                  THEN /\ slog' = Logged(record, "region", None)
                       /\ UNCHANGED <<spc, sresult, type_map, sid_max, elapsed, last_wait,
                                      sfaults>>
                  ELSE
                    /\ type_map' = counted
                    /\ \E sid_ok \in BOOLEAN, created \in BOOLEAN, dt \in Times :
                         /\ ~load_missed => sid_ok
                         /\ ~sid_ok => created /\ dt = 0
                         /\ ~created => dt = 0
                         /\ sfaults' = sfaults + (IF sid_ok /\ created THEN 0 ELSE 1)
                         /\ LET s_id == IF load_missed
                                        THEN I64(get_next_sid(sid_max, sec_type_string))
                                        ELSE encode(sec_type, U32(counted[sec_type]))
                                now == IF dt > elapsed THEN dt ELSE elapsed
                            IN  /\ ~sid_ok => sfaults < MaxSFaults
                                /\ (sid_ok /\ ~created) =>
                                     (sfaults < MaxSFaults \/ sid_taken(symbols0, slog, s_id))
                                /\ (sid_ok /\ created) => ~sid_taken(symbols0, slog, s_id)
                                /\ IF ~sid_ok
                                   THEN /\ spc' = "aborted"
                                        /\ sresult' = "Diesel"
                                        /\ slog' = Logged(record, "sid_failed", None)
                                        /\ UNCHANGED <<sid_max, elapsed, last_wait>>
                                   ELSE IF ~created
                                   THEN /\ spc' = "aborted"
                                        /\ sresult' = "DBFuncs"
                                        /\ slog' = Logged(record, "create_failed", s_id)
                                        /\ UNCHANGED <<sid_max, elapsed, last_wait>>
                                   ELSE /\ slog' = Logged(record, "created", s_id)
                                        /\ sid_max' =
                                             IF load_missed
                                             THEN [sid_max EXCEPT ![sec_type_string] =
                                                     get_next_sid(sid_max, sec_type_string)]
                                             ELSE sid_max
                                        /\ last_wait' = [checked |-> TRUE, elapsed |-> now,
                                                         wait |-> rate_sleep(now)]
                                        /\ elapsed' = now + rate_sleep(now)
                                        /\ UNCHANGED <<spc, sresult>>
  /\ UNCHANGED <<prog, load_missed, err_ct, last, responses, symbols0, base_sid>>
  /\ UNCHANGED <<codecVars, newsVars, priceVars, topVars>>

\* the response's records are exhausted: on to the next symbol of sec_vec
SymbolRecordsDone ==
  /\ prog = "process_symbols"
  /\ spc = "records"
  /\ recs = <<>>
  /\ spc' = "request"
  /\ UNCHANGED <<prog, load_missed, symbol_map, type_map, sid_max, err_ct, recs, slog,
                 last, elapsed, last_wait, responses, sresult, sfaults, symbols0, base_sid>>
  /\ UNCHANGED <<codecVars, newsVars, priceVars, topVars>>

\* sec_vec is exhausted: process_symbols returns Ok(())
SymbolsDone ==
  /\ prog = "process_symbols"
  /\ spc = "request"
  /\ spc' = "done"
  /\ sresult' = "Ok"
  /\ UNCHANGED <<prog, load_missed, symbol_map, type_map, sid_max, err_ct, recs, slog,
                 last, elapsed, last_wait, responses, sfaults, symbols0, base_sid>>
  /\ UNCHANGED <<codecVars, newsVars, priceVars, topVars>>

\* one round of the loop of bin/load_missed_overviews.rs: `responses` counts the
\* symbols handled, `elapsed` is resp_time - dur_time
OverviewRequest ==
  /\ prog = "load_missed_overviews"
  /\ spc = "request"
  /\ responses < MaxOverviews
  /\ responses' = responses + 1
  /\ \E ok \in BOOLEAN, dt \in Times :
       /\ last' = IF ok THEN "records" ELSE "overview_err"
       /\ elapsed' = dt
       /\ last_wait' = IF ok THEN [checked |-> TRUE, elapsed |-> dt, wait |-> rate_sleep(dt)]
                       ELSE NoWait
  /\ UNCHANGED <<prog, spc, load_missed, symbol_map, type_map, sid_max, err_ct, recs,
                 slog, sresult, sfaults, symbols0, base_sid>>
  /\ UNCHANGED <<codecVars, newsVars, priceVars, topVars>>

\* one round of the loop of process_digital_symbols
DigitalSymbol ==
  /\ prog = "process_digital_symbols"
  /\ spc = "records"
  /\ recs # <<>>
  /\ recs' = Tail(recs)
  /\ LET line == Head(recs)
         s_id == encode("Crypto", U32(base_sid))
     IN  IF "malformed" \in DOMAIN line
         THEN /\ spc' = "panicked"
              /\ sresult' = "panic"
              /\ UNCHANGED <<symbol_map, slog, sfaults, base_sid>>
         ELSE IF already_seen(symbol_map, line.symbol)
         THEN /\ slog' = Logged(line, "duplicate", None)
              /\ base_sid' = base_sid + 1
              /\ UNCHANGED <<spc, sresult, symbol_map, sfaults>>
         ELSE /\ symbol_map' = symbol_map \cup {line.symbol}
              /\ \E created \in BOOLEAN :
                   /\ ~created => (sfaults < MaxSFaults \/ sid_taken(symbols0, slog, s_id))
                   /\ created => ~sid_taken(symbols0, slog, s_id)
                   /\ IF created
                      THEN /\ slog' = Logged(line, "created", s_id)
                           /\ base_sid' = base_sid + 1
                           /\ UNCHANGED <<spc, sresult, sfaults>>
                      ELSE /\ slog' = Logged(line, "create_failed", s_id)
                           /\ spc' = "panicked"
                           /\ sresult' = "panic"
                           /\ sfaults' = sfaults + 1
                           /\ UNCHANGED base_sid
  /\ UNCHANGED <<prog, load_missed, type_map, sid_max, err_ct, last, elapsed, last_wait,
                 responses, symbols0>>
  /\ UNCHANGED <<codecVars, newsVars, priceVars, topVars>>

\* the list is exhausted: process_digital_symbols returns Ok(())
DigitalDone ==
  /\ prog = "process_digital_symbols"
  /\ spc = "records"
  /\ recs = <<>>
  /\ spc' = "done"
  /\ sresult' = "Ok"
  /\ UNCHANGED <<prog, load_missed, symbol_map, type_map, sid_max, err_ct, recs, slog,
                 last, elapsed, last_wait, responses, sfaults, symbols0, base_sid>>
  /\ UNCHANGED <<codecVars, newsVars, priceVars, topVars>>

SymbolNext ==
  \/ SymbolRequest
  \/ SymbolRecord
  \/ SymbolRecordsDone
  \/ SymbolsDone
  \/ OverviewRequest
  \/ DigitalSymbol
  \/ DigitalDone

(***************************************************************************)
(* Top movers (alpha_io/base.rs load_tops) and the numeric fields of the   *)
(* overview (core/alpha_data_types.rs json_extractors)                     *)
(***************************************************************************)
MaxTopFaults == 1

\* f32 values are kept in hundredths
DEFAULT_FLOAT == -999

\* str::parse::<f32>: the decimal texts of the model, everything else fails
F32Text == [x \in {"1.5", "0.5", "2.5"} |->
              CASE x = "1.5" -> 150 [] x = "0.5" -> 50 [] x = "2.5" -> 250]

\* str::parse::<i32>: digits only, "1e3" and "1.5" fail
I32Text == [x \in {"100"} |-> 100]

parse_f32(value) ==
  IF value \in DOMAIN F32Text THEN Ok(F32Text[value]) ELSE Err("InvalidFieldValue")

parse_i32(value) ==
  IF value \in DOMAIN I32Text THEN Ok(I32Text[value]) ELSE Err("InvalidFieldValue")

\* trim_end_matches('%') on the texts of the model
TrimPercent(value) ==
  CASE value = "2.5%" -> "2.5"
    [] value = "%" -> ""
    [] OTHER -> value

parse_percentage(value) ==
  LET cleaned == TrimPercent(value)
  IN IF cleaned \in DOMAIN F32Text THEN Ok(F32Text[cleaned]) ELSE Err("ParseFloat")

\* json[field]: a string, or Missing for an absent or non-string field
Missing == [tag |-> "Missing"]

Str(text) == [tag |-> "Str", text |-> text]

extract_f32(field) ==
  IF field.tag = "Missing" THEN Err("JsonFieldAccess")
  ELSE IF field.text = "" THEN Ok(DEFAULT_FLOAT)
  ELSE IF field.text \in DOMAIN F32Text THEN Ok(F32Text[field.text])
  ELSE Err("InvalidFieldValue")

extract_f32_with_fallback(field) ==
  LET r == extract_f32(field)
  IN IF r.tag = "Ok" THEN r.val ELSE DEFAULT_FLOAT

FieldTexts == {"1.5", "abc", "", "1,5"}

\* the fields are converted in the order of the struct literal, the first
\* failure is the result
to_top_statistic(item) ==
  LET price == parse_f32(item.price)
      change_amount == parse_f32(item.change_amount)
      change_percentage == parse_percentage(item.change_percentage)
      volume == parse_i32(item.volume)
  IN IF price.tag = "Err" THEN price
     ELSE IF change_amount.tag = "Err" THEN change_amount
     ELSE IF change_percentage.tag = "Err" THEN change_percentage
     ELSE IF volume.tag = "Err" THEN volume
     ELSE Ok([ticker |-> item.ticker, price |-> price.val,
              change_amount |-> change_amount.val,
              change_percentage |-> change_percentage.val, volume |-> volume.val])

make_top_stat(item) == to_top_statistic(item)

TopItem(ticker, price, pct, volume) ==
  [ticker |-> ticker, price |-> price, change_amount |-> "0.5",
   change_percentage |-> pct, volume |-> volume]

TopItems ==
  {TopItem("AAPL", "1.5", "2.5%", "100"),
   TopItem("ZZZ", "1.5", "2.5%", "100"),
   TopItem("AAPL", "abc", "2.5%", "100"),
   TopItem("AAPL", "", "2.5%", "100"),
   TopItem("AAPL", "1.5", "n/a", "100"),
   TopItem("AAPL", "1.5", "2.5%", "1e3")}

TopLists(n) == UNION {[1..k -> TopItems] : k \in 0..n}

LastUpdated == {"2023-10-03 16:15:59 US/Eastern", "soon US/Eastern"}

get_time_stamp(inp) ==
  IF inp = "2023-10-03 16:15:59 US/Eastern"
  THEN Ok(<<2023, 10, 3, 16, 15, 59>>) ELSE Err("ParseDate")

TopRoots ==
  [last_updated : LastUpdated, top_gainers : TopLists(2), top_losers : TopLists(1),
   most_actively_traded : TopLists(1)]

\* the symbols table as get_sid sees it
get_sid(ticker) == IF ticker = "AAPL" THEN Ok(1) ELSE Err("NotFound")

TopType == <<"TopGainer", "TopLoser", "TopActive">>

top_constants(act) ==
  CASE act = "TopGainer" -> "GAIN" [] act = "TopLoser" -> "LOSE" [] act = "TopActive" -> "ACTV"

TopData(r, n) ==
  CASE n = 1 -> r.top_gainers [] n = 2 -> r.top_losers [] n = 3 -> r.most_actively_traded

NoRoot ==
  [last_updated |-> "", top_gainers |-> <<>>, top_losers |-> <<>>,
   most_actively_traded |-> <<>>]

TopStart ==
  /\ tpc = "idle"
  /\ troot = NoRoot
  /\ tlist = 0
  /\ tidx = 0
  /\ tstats = <<>>
  /\ tlog = <<>>
  /\ tresult = "none"
  /\ tfaults = 0
  /\ tfield = None

TopInit == TopStart

\* load_tops up to the first process_data_for_type
LoadTops ==
  /\ tpc = "idle"
  /\ tfield = None
  /\ \/ /\ \E e \in {"Reqwest"} : tresult' = e
        /\ tpc' = "done"
        /\ UNCHANGED <<troot, tlist>>
     \/ \E r \in TopRoots :
          /\ troot' = r
          /\ IF get_time_stamp(r.last_updated).tag = "Err"
             THEN tpc' = "done" /\ tresult' = get_time_stamp(r.last_updated).err /\ tlist' = tlist
             ELSE tpc' = "list" /\ tresult' = tresult /\ tlist' = 1
  /\ UNCHANGED <<tidx, tstats, tlog, tfaults, tfield>>
  /\ UNCHANGED <<codecVars, newsVars, priceVars, symbolVars>>

\* one pass of the loop of process_data_for_type
ProcessTopItem ==
  /\ tpc = "list"
  /\ tidx < Len(TopData(troot, tlist))
  /\ LET item == TopData(troot, tlist)[tidx + 1]
         tt == make_top_stat(item)
         typ == top_constants(TopType[tlist])
     IN IF tt.tag = "Err"
        THEN /\ tpc' = "done"
             /\ tresult' = "AlphaDataTypes"
             /\ tlog' = Append(tlog, [item |-> item, typ |-> typ, outcome |-> "failed"])
             /\ UNCHANGED <<tidx, tstats, tfaults>>
        ELSE IF get_sid(tt.val.ticker).tag = "Err"
        THEN /\ tidx' = tidx + 1
             /\ tlog' = Append(tlog, [item |-> item, typ |-> typ, outcome |-> "no_sid"])
             /\ UNCHANGED <<tpc, tresult, tstats, tfaults>>
        ELSE \E fail \in (IF tfaults < MaxTopFaults THEN BOOLEAN ELSE {FALSE}) :
               IF fail
               THEN /\ tpc' = "done"
                    /\ tresult' = "DBFuncs"
                    /\ tfaults' = tfaults + 1
                    /\ tlog' = Append(tlog, [item |-> item, typ |-> typ, outcome |-> "insert_failed"])
                    /\ UNCHANGED <<tidx, tstats>>
               ELSE /\ tidx' = tidx + 1
                    /\ tstats' = Append(tstats, [sid |-> get_sid(tt.val.ticker).val,
                                                 event_type |-> typ, stat |-> tt.val])
                    /\ tlog' = Append(tlog, [item |-> item, typ |-> typ, outcome |-> "stored"])
                    /\ UNCHANGED <<tpc, tresult, tfaults>>
  /\ UNCHANGED <<troot, tlist, tfield>>
  /\ UNCHANGED <<codecVars, newsVars, priceVars, symbolVars>>

\* process_data_for_type returns Ok; load_tops goes to the next list or ends
TopListDone ==
  /\ tpc = "list"
  /\ tidx = Len(TopData(troot, tlist))
  /\ IF tlist = 3
     THEN tpc' = "done" /\ tresult' = "Ok" /\ UNCHANGED <<tlist, tidx>>
     ELSE tlist' = tlist + 1 /\ tidx' = 0 /\ UNCHANGED <<tpc, tresult>>
  /\ UNCHANGED <<troot, tstats, tlog, tfaults, tfield>>
  /\ UNCHANGED <<codecVars, newsVars, priceVars, symbolVars>>

\* one numeric field of an overview, as FullOverview::from_json reads it
ExtractOverviewField ==
  /\ tpc = "idle"
  /\ tfield = None
  /\ \E field \in {Str(t) : t \in FieldTexts} \cup {Missing} :
       tfield' = [tag |-> "Some", field |-> field,
                  val |-> extract_f32_with_fallback(field)]
  /\ tpc' = "done"
  /\ tresult' = "Ok"
  /\ UNCHANGED <<troot, tlist, tidx, tstats, tlog, tfaults>>
  /\ UNCHANGED <<codecVars, newsVars, priceVars, symbolVars>>

TopNext ==
  \/ LoadTops
  \/ ProcessTopItem
  \/ TopListDone
  \/ ExtractOverviewField

(***************************************************************************)
(* Specifications                                                          *)
(***************************************************************************)
vars == <<codecVars, newsVars, priceVars, symbolVars, topVars>>

NewsRest == NewsStart(FALSE)

PriceRest == PriceStart({}, {})

SymbolRest == SymbolStart("process_symbols", FALSE, {})

TopRest == TopStart

\* each specification runs one component; the others rest in an initial state
InitCodec == CodecInit /\ NewsRest /\ PriceRest /\ SymbolRest /\ TopRest

InitNews == CodecInit /\ NewsInit /\ PriceRest /\ SymbolRest /\ TopRest

InitPrices == CodecInit /\ NewsRest /\ PriceInit /\ SymbolRest /\ TopRest

InitSymbols == CodecInit /\ NewsRest /\ PriceRest /\ SymbolInit /\ TopRest

InitTops == CodecInit /\ NewsRest /\ PriceRest /\ SymbolRest /\ TopInit

InitRegistry == CodecInit /\ NewsInit /\ PriceRest /\ SymbolRest /\ TopRest

SpecCodec == InitCodec /\ [][CodecNext]_vars

SpecNews == InitNews /\ [][NewsNext]_vars

SpecRegistry == InitRegistry /\ [][RegistryNext]_vars

SpecPrices == InitPrices /\ [][PriceNext]_vars

SpecSymbols == InitSymbols /\ [][SymbolNext]_vars

SpecTops == InitTops /\ [][TopNext]_vars

\* the price syncs and the symbol batch side by side: a run is either a run of
\* price syncs, the symbol batch being over, or a symbol run, no price sync
\* being made
PriceOff ==
  /\ ppc = "off"
  /\ ptable = [intraday |-> {}, daily |-> {}]
  /\ rows = <<>>
  /\ lookup = "none"
  /\ last_date = None
  /\ pidx = 0
  /\ plog = <<>>
  /\ presult = "none"
  /\ psyncs = 0
  /\ pfaults = 0
  /\ pheader = TRUE

SymbolOff ==
  /\ prog = "process_symbols"
  /\ spc = "done"
  /\ load_missed = FALSE
  /\ symbol_map = {}
  /\ type_map = [t \in SecurityType |-> 0]
  /\ sid_max = [t \in SecTypeStrings |-> 0]
  /\ err_ct = 0
  /\ recs = <<>>
  /\ slog = <<>>
  /\ last = "none"
  /\ elapsed = 0
  /\ last_wait = NoWait
  /\ responses = 0
  /\ sresult = "Ok"
  /\ sfaults = 0
  /\ symbols0 = {}
  /\ base_sid = 1

InitSync ==
  /\ CodecInit
  /\ NewsRest
  /\ TopRest
  /\ \/ PriceInit /\ SymbolOff
     \/ PriceOff /\ SymbolInit

SyncNext == PriceNext \/ SymbolNext

SpecSync == InitSync /\ [][SyncNext]_vars


(***************************************************************************)
(* C10: for every one of the 13 categories c and every sequence n up to    *)
(* and including u32::MAX, decode(encode(c, n)) is Some with category c    *)
(* and sequence n.                                                         *)
(***************************************************************************)
C10_RoundTrip ==
  cpc = "decoded" =>
    /\ decoded.tag = "Some"
    /\ decoded.security_type = st
    /\ decoded.raw_id = id

\* the round trip of the maximum sequence under the highest tag has been made
C10_Witness ==
  /\ cpc = "decoded"
  /\ id = U32Max
  /\ st = "Other"
  /\ decoded = [tag |-> "Some", security_type |-> "Other", raw_id |-> U32Max]

(***************************************************************************)
(* Registry cache (get_or_insert_source / _author / _topic)                *)
(***************************************************************************)
\* the original statement of C1: once a key has been asked for, exactly one
\* store insert has been made for it and one id has been returned
C1_ExactlyOnce ==
  \A k \in Kinds \X Names :
    world.reg[k].calls >= 1 =>
      /\ world.reg[k].inserts = 1
      /\ Cardinality(world.reg[k].ids) = 1

(* C1: within one run, for each registry kind and natural key X, the calls of get_or_insert_<kind> with key X make at most one successful store insert and every call that returns an id returns the same id; a key already cached when the run starts is never inserted, a key that is not cached is inserted exactly once unless the insert fails, and a failed insert leaves the key uncached so that a later call issues the insert again. *)
C1_AtMostOnce ==
  \A k \in Kinds \X Names :
    LET r == world.reg[k]
    IN  /\ r.inserts <= 1
        /\ Cardinality(r.ids) <= 1
        /\ r.cached0 => r.attempts = 0 /\ (r.calls >= 1 => Cardinality(r.ids) = 1)
        /\ (~r.cached0 /\ r.calls >= 1 /\ r.attempts = r.inserts) =>
             r.attempts = 1 /\ Cardinality(r.ids) = 1
        /\ (~r.cached0 /\ r.inserts = 0) => r.attempts = r.calls /\ r.ids = {}

\* a source that was not cached has been asked for three times and inserted once
C1_Witness ==
  LET r == world.reg[<<"source", "S1">>]
  IN  ~r.cached0 /\ r.calls = 3 /\ r.attempts = 1 /\ r.inserts = 1 /\ r.ids = {1}

(***************************************************************************)
(* News-overview snapshots and their fingerprint                           *)
(***************************************************************************)
(* C9: when the fingerprint of an entity's freshly fetched feed equals the fingerprint stored with that entity's previous snapshot, no new snapshot is persisted; so no snapshot follows, for the same entity, a snapshot with the same fingerprint. *)
C9_UnchangedNotRepersisted ==
  LET ov == world.db.newsoverviews
  IN  \A i, j \in 1..Len(ov) :
        (/\ i < j
         /\ ov[i].sid = ov[j].sid
         /\ \A m \in (i + 1)..(j - 1) : ov[m].sid # ov[i].sid)
          => ov[i].hashid # ov[j].hashid

(***************************************************************************)
(* Watermark filters                                                       *)
(***************************************************************************)
(* C2: for an entity with a stored watermark w, every candidate row the sync examines is passed to the store insert if and only if its instant is strictly later than w, so a row at w or earlier is never inserted; a sync that returns Ok has examined every row of its payload. This holds for intraday timestamps and for daily dates. *)
C2_StrictlyNewer ==
  LET After(a, b) ==
        \E i \in 1..Len(a) : a[i] > b[i] /\ \A j \in 1..(i - 1) : a[j] = b[j]
  IN  lookup = "Some" =>
        /\ \A k \in 1..Len(plog) :
             /\ plog[k].row = k
             /\ plog[k].issued <=> After(plog[k].instant, last_date.val)
        /\ (ppc = "idle" /\ presult = "Ok") => Len(plog) = Len(rows)

\* the intraday sync of the scenario: watermark 2024-01-01 00:00:00, ticks one
\* second before it, at it and one second after it; only the last is inserted
C2_Witness ==
  /\ ppc = "idle"
  /\ presult = "Ok"
  /\ lookup = "Some"
  /\ last_date = Some(<<2024, 1, 1, 0, 0, 0>>)
  /\ rows = <<"2023-12-31 23:59:59", "2024-01-01 00:00:00", "2024-01-01 00:00:01">>
  /\ Len(plog) = 3
  /\ ~plog[1].issued /\ ~plog[2].issued /\ plog[3].issued
  /\ ptable.intraday = {<<2024, 1, 1, 0, 0, 0>>, <<2024, 1, 1, 0, 0, 1>>}

(* C3: when the watermark lookup yields the no-data result, the sync does not fail and every candidate row of the payload is passed to the store insert, for persist_ticks and for load_summary alike (stated for payloads whose rows all parse and for syncs in which no row insert failed). *)
C3_NoDataInsertsAll ==
  (/\ ppc = "idle"
   /\ lookup = "NoData"
   /\ \A i \in 1..Len(rows) :
        ParseTimestamp(rows[i]).tag = "Ok" \/ ParseDate(rows[i]).tag = "Ok"
   /\ \A k \in 1..Len(plog) : plog[k].outcome \in {"ok", "none"})
    => /\ presult = "Ok"
       /\ Len(plog) = Len(rows)
       /\ \A k \in 1..Len(plog) : plog[k].issued

C6_NextAfterCeilingPlusOne ==
  err_ct <= MAX_ERRORS + 1 => sresult \notin {"Reqwest", "MaxExceeded"}

(* C6: after exactly ceiling calls that record an error, the next such call, the (ceiling + 1)-th, is the one that fails with the too-many-errors abort, and every call before it succeeds. *)
C6_CeilingPlusOneth ==
  /\ err_ct <= MAX_ERRORS + 1
  /\ err_ct <= MAX_ERRORS => sresult \notin {"Reqwest", "MaxExceeded"}
  /\ err_ct = MAX_ERRORS + 1 => spc = "aborted" /\ sresult \in {"Reqwest", "MaxExceeded"}

\* the (ceiling + 1)-th error arrives after a response with records was processed
C6_Witness ==
  /\ err_ct = MAX_ERRORS + 1
  /\ last = "body_err"
  /\ responses >= 1
  /\ spc = "aborted"

(* C7: during a run the error count never decreases; a successful request neither resets nor reduces it. *)
C7_NeverDecreases == [][err_ct' >= err_ct]_vars

\* a response with records has been received after two errors were recorded
C7_Witness == err_ct = 2 /\ last = "records" /\ spc = "records" /\ slog # <<>>

(***************************************************************************)
(* Rate check                                                              *)
(***************************************************************************)
\* the original statement of C8: the wait is max(0, min_interval - elapsed)
C8_WaitIsShortfall ==
  last_wait.checked =>
    last_wait.wait = (IF 350 - last_wait.elapsed > 0 THEN 350 - last_wait.elapsed ELSE 0)

(* C8: at a rate check the caller is made to wait a fixed 1000 ms when the elapsed time is below min_interval = 350 ms and not at all otherwise, so the wait is never shorter than max(0, min_interval - elapsed); with 350 ms and 100 ms elapsed the wait is 1000 ms, which is at least 250 ms. *)
C8_PenaltySleep ==
  last_wait.checked =>
    /\ last_wait.wait = (IF last_wait.elapsed < 350 THEN 1000 ELSE 0)
    /\ last_wait.wait >= 350 - last_wait.elapsed
    /\ last_wait.wait >= 0

\* a rate check made 100 ms after the response
C8_Witness == last_wait = [checked |-> TRUE, elapsed |-> 100, wait |-> 1000]

(***************************************************************************)
(* C11: for every i64 key whose tag (the key shifted right by 47 bits, the *)
(* sign bit replicated) is none of the 13 category tags, negative keys     *)
(* included, SecurityIdentifier::decode returns None.                      *)
(***************************************************************************)
C11_UnknownTagIsNone ==
  (cpc \in {"decoded", "examined"} /\ Sar(encoded_id, SHIFT) \notin KnownTags)
    => decoded = None

\* decode has answered for the key -1 and for a negative key whose bits 47..54
\* spell a known tag
C11_Witness ==
  /\ cpc = "examined"
  /\ encoded_id \in {I64Bits(0..63), I64Bits({63, 51})}
  /\ encoded_id[63] = 1
  /\ Sar(encoded_id, SHIFT) \notin KnownTags
  /\ decoded = None

(***************************************************************************)
(* C12: neither SecurityIdentifier::decode nor SecurityType::get_sec_type  *)
(* returns a category, Other included, for a key whose tag is none of the  *)
(* 13 category tags.                                                       *)
(***************************************************************************)
C12_NoCategoryForUnknownTag ==
  Sar(encoded_id, SHIFT) \notin KnownTags =>
    /\ cpc \in {"decoded", "examined"} => decoded = None
    /\ key_sec_type = None

(***************************************************************************)
(* C13: for every category c and every u32 sequence n,                     *)
(* get_sec_type(encode(c, n)) = c; the 13 tags are pairwise distinct and   *)
(* the sequence bits leave the tag bits alone.                             *)
(***************************************************************************)
C13_SecTypeOfEncoded ==
  /\ (cpc \in {"encoded", "decoded"} /\ key_sec_type # None)
       => key_sec_type.security_type = st
  /\ \A a, b \in SecurityType : TagOf(a) = TagOf(b) => a = b
  /\ cpc \in {"encoded", "decoded"} => Sar(encoded_id, SHIFT) = I64(TagOf(st))

\* get_sec_type has answered for the key of (Pfd, u32::MAX)
C13_Witness ==
  /\ cpc \in {"encoded", "decoded"}
  /\ st = "Pfd"
  /\ id = U32Max
  /\ key_sec_type = [tag |-> "Some", security_type |-> "Pfd"]

(***************************************************************************)
(* C14: when the natural key is already in the map of its kind,            *)
(* get_or_insert_<kind> returns the cached id, performs no store operation *)
(* and leaves every map of the context as it was.                          *)
(***************************************************************************)
C14_HitTouchesNothing ==
  (reg_call # None /\ reg_call.hit) =>
    LET k == <<reg_call.kind, reg_call.key>>
    IN  /\ reg_call.res = Ok(CacheOf(reg_call.before, reg_call.kind)[reg_call.key])
        /\ world.db = reg_call.before.db
        /\ world.reg[k].attempts = reg_call.before.reg[k].attempts
        /\ world.context = reg_call.before.context

\* an author inserted earlier in the run has been asked for again
C14_Witness ==
  /\ reg_call # None
  /\ reg_call.hit
  /\ reg_call.kind = "author"
  /\ reg_call.before.reg[<<"author", reg_call.key>>].inserts = 1
  /\ reg_call.res.tag = "Ok"

C16_TransportErrorRecorded ==
  [][(prog = "process_symbols" /\ spc = "request" /\ last' = "transport_err")
       => /\ err_ct' = err_ct + 1
          /\ spc' = IF TooManyErrors(err_ct') THEN "aborted" ELSE "request"]_vars

(***************************************************************************)
(* C17: a failure confined to one symbol (a transport error, a payload or  *)
(* record that cannot be read, a failed insert of that symbol's row) never *)
(* ends the batch; only the error ceiling ends it.                         *)
(***************************************************************************)
C17_BadSymbolNeverStops ==
  /\ spc # "panicked"
  /\ ~(spc = "aborted" /\ sresult = "DBFuncs")

(***************************************************************************)
(* C18: two consecutive requests to the provider are at least min_time     *)
(* (350 ms) apart, whatever the earlier request led to: rows created, a    *)
(* payload without data, duplicate records only, or an error.  The time    *)
(* the code guarantees to have passed since the earlier response is        *)
(* `elapsed`, plus the sleep of the overview loop's rate check.            *)
(***************************************************************************)
C18_RequestsSpacedApart ==
  [][(spc = "request" /\ spc' # "done" /\ last # "none")
       => (IF prog = "process_symbols" THEN elapsed
           ELSE elapsed + (IF last_wait.checked THEN last_wait.wait ELSE 0))
            >= min_time]_vars

(***************************************************************************)
(* C19: a store failure while one row is persisted is skipped and the      *)
(* remaining rows of the batch are still persisted: no sync in which a row *)
(* insert failed ends with a store error.                                  *)
(***************************************************************************)
C19_FailedRowSkipped ==
  (\E i \in 1..Len(plog) : plog[i].issued /\ plog[i].outcome # "ok")
    => ~(ppc = "idle" /\ presult = "DBFuncs")

(***************************************************************************)
(* C20: a row with a field that cannot be parsed is dropped and every      *)
(* other row of the payload is still filtered and persisted: no sync ends  *)
(* with a parse error, and a sync that returns Ok has examined every row   *)
(* of its payload that parses.                                             *)
(***************************************************************************)
C20_UnparsableRowDropped ==
  /\ presult # "ChronoParse"
  /\ (ppc = "idle" /\ presult = "Ok") =>
       Len(plog) = Len(SelectSeq(rows, LAMBDA r : \/ ParseTimestamp(r).tag = "Ok"
                                                  \/ ParseDate(r).tag = "Ok"))

(***************************************************************************)
(* C21: a sync repeated against an unchanged payload issues no store       *)
(* insert for what the earlier sync persisted; for symbols: a run of       *)
(* process_symbols issues no create_symbol for a symbol text the symbols   *)
(* table already held when the run began.                                  *)
(***************************************************************************)
C21_NoInsertOfPersistedSymbol ==
  \A k \in 1..Len(slog) :
    slog[k].what \in {"created", "create_failed"} => slog[k].symbol \notin symbols0

(***************************************************************************)
(* C22: the watermark is read once, before the first row is examined, and  *)
(* the threshold stays what it was while the entity's rows are processed,  *)
(* also after newer rows have been stored: every decision of the sync is   *)
(* the comparison with the one value read, and two rows with the same      *)
(* instant get the same decision.                                          *)
(***************************************************************************)
C22_ThresholdFixed ==
  LET After(a, b) ==
        \E i \in 1..Len(a) : a[i] > b[i] /\ \A j \in 1..(i - 1) : a[j] = b[j]
  IN  /\ \A k \in 1..Len(plog) :
           plog[k].issued <=> (last_date = None \/ After(plog[k].instant, last_date.val))
      /\ \A i, j \in 1..Len(plog) :
           plog[i].instant = plog[j].instant => plog[i].issued = plog[j].issued
      /\ lookup = "Some" => last_date # None
      /\ (ppc \in {"ticks", "daily"} /\ lookup = "NoData") => last_date = None

\* two ticks one second after the watermark: the first has been stored and the
\* second is still passed to the insert
C22_Witness ==
  /\ lookup = "Some"
  /\ last_date = Some(<<2024, 1, 1, 0, 0, 0>>)
  /\ Len(plog) = 2
  /\ plog[1].instant = <<2024, 1, 1, 0, 0, 1>> /\ plog[1].issued /\ plog[1].outcome = "ok"
  /\ plog[2].instant = <<2024, 1, 1, 0, 0, 1>> /\ plog[2].issued
  /\ <<2024, 1, 1, 0, 0, 1>> \in ptable.intraday

(***************************************************************************)
(* C23: for an entity the store inserts are issued in the order in which   *)
(* the rows that pass the filter stand in the parsed payload: the k-th row *)
(* examined is the k-th row of the payload, and each step of the loop      *)
(* examines one row and stores at most one.                                *)
(***************************************************************************)
C23_InsertsInPayloadOrder ==
  /\ [](\A k \in 1..Len(plog) :
          /\ k <= Len(rows)
          /\ plog[k].row = k
          /\ plog[k].instant = (IF ParseTimestamp(rows[k]).tag = "Ok"
                                THEN ParseTimestamp(rows[k]).val
                                ELSE ParseDate(rows[k]).val))
  /\ [][/\ Len(plog') <= Len(plog) + 1
        /\ Cardinality(ptable'.intraday) <= Cardinality(ptable.intraday) + 1
        /\ Cardinality(ptable'.daily) <= Cardinality(ptable.daily) + 1
        /\ (Len(plog') = Len(plog) + 1 => SubSeq(plog', 1, Len(plog)) = plog)]_vars

\* three ticks that arrive newest first, oldest second: all three are inserted,
\* in that order
C23_Witness ==
  /\ ppc = "idle"
  /\ presult = "Ok"
  /\ rows = <<"2024-01-01 00:00:01", "2023-12-31 23:59:59", "2024-01-01 00:00:00">>
  /\ Len(plog) = 3
  /\ plog[1].issued /\ plog[2].issued /\ plog[3].issued
  /\ plog[1].instant = <<2024, 1, 1, 0, 0, 1>>
  /\ plog[2].instant = <<2023, 12, 31, 23, 59, 59>>
  /\ plog[3].instant = <<2024, 1, 1, 0, 0, 0>>

(***************************************************************************)
(* C24: whenever a run is aborted because the error ceiling was exceeded,  *)
(* the error handed to the caller is the explicit too-many-errors          *)
(* condition (Error::MaxExceeded, whose text carries the count).           *)
(***************************************************************************)
C24_AbortIsMaxExceeded ==
  (spc = "aborted" /\ TooManyErrors(err_ct)) => sresult = "MaxExceeded"

(***************************************************************************)
(* C25: when the provider's payload lacks the expected marker, the entity  *)
(* is skipped as a non-error outcome: load_intraday and load_summary       *)
(* return Ok at once without a store read or write, and process_symbols    *)
(* goes on to the next symbol with the error count, the store and the      *)
(* result as they were.                                                    *)
(***************************************************************************)
C25_MarkerlessSkipped ==
  [][/\ (psyncs' = psyncs + 1 /\ ~pheader')
          => /\ ppc' = "idle"
             /\ presult' = "Ok"
             /\ ptable' = ptable
             /\ plog' = <<>>
             /\ pfaults' = pfaults
     /\ (spc = "request" /\ spc' # "done" /\ last' = "no_symbol")
          => /\ spc' = "request"
             /\ err_ct' = err_ct
             /\ slog' = slog
             /\ sresult' = sresult
             /\ sfaults' = sfaults]_vars

\* the second sync of an entity met a payload without the header after the
\* first sync had stored a row
C25_Witness ==
  /\ psyncs = 2
  /\ ~pheader
  /\ ppc = "idle"
  /\ presult = "Ok"
  /\ ptable.intraday = {<<2024, 1, 1, 0, 0, 1>>}

\* C26: a malformed numeric text in a provider field becomes the reserved
\* sentinel and never fails the sync: load_tops does not fail on a top-mover
\* item whose price, change or volume text is not a number, and an overview
\* field whose text is not a number is read as DEFAULT_FLOAT
C26_MalformedBecomesSentinel ==
  /\ \A i \in DOMAIN tlog :
        (\/ tlog[i].item.price \notin DOMAIN F32Text
         \/ tlog[i].item.change_amount \notin DOMAIN F32Text
         \/ TrimPercent(tlog[i].item.change_percentage) \notin DOMAIN F32Text
         \/ tlog[i].item.volume \notin DOMAIN I32Text)
          => tlog[i].outcome # "failed"
  /\ (tfield.tag = "Some" /\ tfield.field.tag = "Str"
        /\ tfield.field.text \notin DOMAIN F32Text)
          => tfield.val = DEFAULT_FLOAT /\ tresult = "Ok"

\* C27: a failure while processing one article does not stop the feed: from
\* every point of a feed, whatever the earlier articles returned, the next
\* step processes the next article of the feed and moves on, and the feed
\* ends, with Ok, only when every article has a result
C27_FailureDoesNotStopFeed ==
  [][/\ (npc = "articles" /\ root.i < Len(root.feed))
          => /\ npc' = "articles"
             /\ root' = [root EXCEPT !.i = @ + 1]
             /\ Len(art_results') = root.i + 1
             /\ \E F \in SUBSET FaultPoints :
                  LET g == process_single_article(world, root.symbol_id,
                                                  root.feed[root.i + 1], root.overview_id, F)
                  IN world' = g.w /\ art_results' = Append(art_results, g.res.tag)
     /\ (npc = "articles" /\ npc' = "idle")
          => nresult' = "Ok" /\ Len(art_results') = Len(root.feed)]_vars

C27_Witness ==
  /\ npc = "idle"
  /\ nresult = "Ok"
  /\ Len(root.feed) = 2
  /\ art_results = <<"Err", "Ok">>

\* C28: whenever a call of process_news / load_news has returned, with Ok or
\* with Err, params maps every source, author and topic name that the run has
\* inserted into the store to the id it was given, and no name has been
\* inserted twice
C28_ParamsHoldsInserted ==
  npc = "idle" =>
    \A k \in Kinds \X Names :
      LET r == world.reg[k]
          map == CASE k[1] = "source" -> world.params.sources
                   [] k[1] = "author" -> world.params.authors
                   [] k[1] = "topic"  -> world.params.topics
      IN  /\ r.inserts <= 1
          /\ r.inserts = 1 => k[2] \in DOMAIN map /\ r.ids = {map[k[2]]}

\* a second call has returned Err after the first inserted the author Au1
C28_Witness ==
  /\ npc = "idle"
  /\ roots_done = 2
  /\ nresult = "Err"
  /\ world.reg[<<"author", "Au1">>].inserts = 1
  /\ "Au1" \in DOMAIN world.params.authors

\* C29: the rows of one article are stored in dependency order: a ticker
\* sentiment, topic map or author map row always points at a stored feed row,
\* a feed row at a stored article row and a stored source, an article row at
\* a stored source and a stored author; and a step that stores no article row
\* stores no feed row, a step that stores no feed row stores no dependent row,
\* and the dependent rows a step stores point at the feed row of that step
C29_DependentsAfterFeed ==
  /\ [](LET db == world.db
             HasFeed(x) == \E i \in 1..Len(db.feeds) : db.feeds[i].id = x
             HasArticle(x) == \E i \in 1..Len(db.articles) : db.articles[i].hashid = x
             HasSource(x) == \E i \in 1..Len(db.sources) : db.sources[i].id = x
             HasAuthor(x) == \E i \in 1..Len(db.authors) : db.authors[i].id = x
         IN  /\ \A i \in 1..Len(db.tickersentiments) : HasFeed(db.tickersentiments[i].feedid)
             /\ \A i \in 1..Len(db.topicmaps) : HasFeed(db.topicmaps[i].feedid)
             /\ \A i \in 1..Len(db.authormaps) :
                   HasFeed(db.authormaps[i].feedid) /\ HasAuthor(db.authormaps[i].authorid)
             /\ \A i \in 1..Len(db.feeds) :
                   HasArticle(db.feeds[i].articleid) /\ HasSource(db.feeds[i].sourceid)
             /\ \A i \in 1..Len(db.articles) :
                   HasSource(db.articles[i].sourceid) /\ HasAuthor(db.articles[i].author))
  /\ [][LET db == world.db
            db2 == world'.db
        IN  /\ Len(db2.articles) = Len(db.articles) => db2.feeds = db.feeds
            /\ Len(db2.feeds) = Len(db.feeds)
                 => /\ db2.tickersentiments = db.tickersentiments
                    /\ db2.topicmaps = db.topicmaps
                    /\ db2.authormaps = db.authormaps
            /\ Len(db2.feeds) <= Len(db.feeds) + 1
            /\ \A i \in (Len(db.tickersentiments) + 1)..Len(db2.tickersentiments) :
                  db2.tickersentiments[i].feedid = db2.feeds[Len(db2.feeds)].id
            /\ \A i \in (Len(db.topicmaps) + 1)..Len(db2.topicmaps) :
                  db2.topicmaps[i].feedid = db2.feeds[Len(db2.feeds)].id
            /\ \A i \in (Len(db.authormaps) + 1)..Len(db2.authormaps) :
                  db2.authormaps[i].feedid = db2.feeds[Len(db2.feeds)].id]_vars

\* one article stored with its feed row and an author map row, and a later
\* article whose feed insert failed
C29_Witness ==
  /\ Len(world.db.articles) = 2
  /\ Len(world.db.feeds) = 1
  /\ Len(world.db.authormaps) = 1
  /\ art_results = <<"Ok", "Err">>

\* C30: within one run any two created symbols have distinct ids: no two
\* created records of the run carry the same s_id; a record created by
\* process_symbols with load_missed = false gets encode(category, n) where n is
\* the category's counter, which was n - 1 before and so starts at 1; a line
\* created by process_digital_symbols gets encode(Crypto, base_sid) and
\* base_sid goes up by one
C30_DistinctIds ==
  /\ [](\A j, k \in 1..Len(slog) :
          (j < k /\ slog[j].what = "created" /\ slog[k].what = "created")
            => slog[j].s_id # slog[k].s_id /\ slog[j].symbol # slog[k].symbol)
  /\ [][(Len(slog') = Len(slog) + 1 /\ slog'[Len(slog')].what = "created")
          => LET s_id == slog'[Len(slog')].s_id
             IN  /\ (prog = "process_symbols" /\ ~load_missed) =>
                      \E t \in SecurityType :
                        /\ type_map' = [type_map EXCEPT ![t] = @ + 1]
                        /\ s_id = encode(t, U32(type_map[t] + 1))
                 /\ prog = "process_digital_symbols" =>
                      /\ s_id = encode("Crypto", U32(base_sid))
                      /\ base_sid' = base_sid + 1]_vars

\* SPY, ACAHW and AAPL of one response: the first of three categories each
C30_Witness ==
  /\ prog = "process_symbols"
  /\ ~load_missed
  /\ Len(slog) = 3
  /\ \A k \in 1..3 : slog[k].what = "created"
  /\ slog[1].s_id = encode("ETF", U32(1))
  /\ slog[2].s_id = encode("Wrnt", U32(1))
  /\ slog[3].s_id = encode("Equity", U32(1))
====
